---- MODULE Spec2Model ----
(***************************************************************************)
(* V2Solenoids (adaptive solenoid power controller) and V2Buttons (button  *)
(* event state machine) as state machines.                                 *)
(*                                                                         *)
(* Units.  Time is counted in quanta of 8 microseconds, so that the 32-bit *)
(* microsecond counter wraps at 2^29 quanta; every interval of the code    *)
(* (1000, 5000, 10000, 200000, 1000000, 60000000 us) is a whole number of  *)
(* quanta.  Duty cycles are fixed-point numbers, DutyOne = 1.0; divisions  *)
(* truncate.  Probe voltages are millivolts, resistances ohms, the supply  *)
(* voltage is in 0.1 V, power in watts, current in amperes.                *)
(***************************************************************************)
EXTENDS Integers, Sequences, FiniteSets, TLC

VARIABLES
  now,          \* micros(): the wrapping hardware counter
  elapsed,      \* time since boot, unbounded (reference clock of the model)
  loopUsec,     \* V2Solenoids::_loopUsec
  powerUsec,    \* V2Solenoids::_powerUsec
  timeoutUsec,  \* V2Solenoids::_timeoutUsec
  probe,        \* V2Solenoids::_probe
  current,      \* V2Solenoids::_current
  ports,        \* V2Solenoids::_ports[nPorts]
  pwm,          \* last duty handed to setPWMDuty(), per port
  power,        \* main power rail, as last switched by a successful setPower()
  load,         \* what is wired to each port: the divider voltage it reads
  resets,       \* number of reset() calls so far
  triggers,     \* number of triggerPort() calls made while ready so far
  tripped,      \* loop() has shut down for over-current since the last reset()
  passes,       \* full probe passes over all ports since reset() / over-current
  call,         \* the last call made to the controller and how it ended
  ref,          \* reference clock readings: last substantive tick, last accepted trigger
  pins,         \* per button: digitalRead(_pin) == _high, the pin is asserted
  buttons,      \* per button: _state, _clicks, _usec, _event, _busy
  dispatch,     \* V2Buttons.cpp _buttons: usec, event, busy
  scan,         \* position of V2Buttons::loop(): 0 outside, else the button polled next
  hooks,        \* per button: the hooks called in its current event sequence
  press,        \* per button: the last press of its pin, as the pin saw it
  edges,        \* number of pin changes so far
  wake,         \* interrupts: since the flag was cleared, and per button since sampled
  configs,      \* per button: the Config it was constructed with
  device,       \* V2Device: _boot.id, bootData, usb.ports, _eeprom, EEPROM, firmware
  handled       \* the last system exclusive request and what was sent for it

solVars == <<loopUsec, powerUsec, timeoutUsec, probe, current, ports, pwm, power, load, resets, triggers, tripped, passes, call, ref>>
btnVars == <<pins, buttons, dispatch, scan, hooks, press, edges, wake, configs>>
devVars == <<device, handled>>
vars == <<now, elapsed, solVars, btnVars, devVars>>

----------------------------------------------------------------------------
(* Time *)

Wrap == 2^29
Usec(n) == n \div 8

\* V2Base::getUsecSince(t, ) at counter value t
getUsecSince(t, since) == (t + Wrap - since) % Wrap

LoopPeriod == Usec(1000)
LedTimeout == Usec(60 * 1000 * 1000)
PowerOffDelay == Usec(200 * 1000)
SettleTime == Usec(200 * 1000)
MeasureTime == Usec(10 * 1000)
SleepTime == Usec(1000 * 1000)

\* Bounds of the model.
Horizon == 55
HorizonTime == Horizon * Usec(10 * 1000)
MaxResets == 2
MaxTriggers == 2
Steps == {Usec(10 * 1000)}
BootTimes == {Wrap - Usec(470 * 1000)}

----------------------------------------------------------------------------
(* Configuration and inputs *)

nPorts == 2
Ports == 0 .. (nPorts - 1)

DutyOne == 36 * 100
DutyMin == DutyOne \div 100

\* .fade{.inSec, .outSec} are given in milliseconds, .hold.fraction and
\* .current.alpha as fractions.
config ==
  [current |-> [max |-> 2, alphaNum |-> 1, alphaDen |-> 2],
   resistance |-> [min |-> 6, max |-> 60],
   fade |-> [inMsec |-> 2, outMsec |-> 2],
   hold |-> [peakUsec |-> Usec(10 * 1000), fractionNum |-> 1, fractionDen |-> 2]]

Infinity == 1000000
VIn == 3300
VDiode == 300
R1 == 100

Wirings == {<<800, 800>>, <<800, VIn>>, <<VDiode, 800>>}
Currents == {0, 6}
Supplies == {120}
\* The triggerPort() calls made: <<port, watts, msec, fadeIn, fadeOut>>.
Triggers ==
  {<<0, 0, 20, FALSE, FALSE>>, <<0, 5, 0, TRUE, TRUE>>,
   <<0, 5, 20, FALSE, FALSE>>, <<0, 20, 20, TRUE, TRUE>>, <<0, 20, 1, TRUE, FALSE>>,
   <<1, 0, 20, FALSE, FALSE>>, <<1, 20, 10, FALSE, FALSE>>}

ReadyCycles == 10

DriverState == {"Idle", "FadeIn", "Peak", "Hold", "FadeOut"}
CoilState == {"NotConnected", "Connected", "ShortCircuit"}
ProbeState == {"Init", "Settle", "Measure", "Sleep"}

ZeroPulse ==
  [startUsec |-> 0, peekUsec |-> 0, durationUsec |-> 0, fadeIn |-> FALSE,
   fadeOut |-> FALSE, target |-> 0, delta |-> 0]

ZeroProbe ==
  [state |-> "Init", settleUsec |-> 0, port |-> 0, measureUsec |-> 0,
   sleepUsec |-> 0, cycle |-> 0, ready |-> FALSE]

ZeroPort ==
  [state |-> "Idle", duty |-> 0,
   measure |-> [state |-> "NotConnected", resistance |-> 0, voltage |-> 0],
   pulse |-> ZeroPulse]

ResetPort ==
  [ZeroPort EXCEPT !.measure = [state |-> "NotConnected", resistance |-> -1, voltage |-> -1]]

Min(a, b) == IF a < b THEN a ELSE b

\* The largest r in lo .. hi with r * r <= n (bisection).
RECURSIVE SqrtIn(_, _, _)
SqrtIn(n, lo, hi) ==
  IF lo >= hi THEN lo
  ELSE LET mid == (lo + hi + 1) \div 2
       IN  IF mid * mid <= n THEN SqrtIn(n, mid, hi) ELSE SqrtIn(n, lo, mid - 1)

ISqrt(n) == SqrtIn(n, 0, 1024)

----------------------------------------------------------------------------
(* Helpers of the controller *)

\* A release that leaves the pulse descriptor.
releasePortKeepPulse(pt) ==
  [pt EXCEPT !.state = "Idle", !.duty = 0]

\* releasePort(): the port record; the PWM output is set to 0 by the caller.
releasePort(pt) ==
  [pt EXCEPT !.state = "Idle", !.duty = 0, !.pulse = ZeroPulse]

\* fadeOutPort(): whether it starts a fade-out.
fadeOutOk(pt) == pt.pulse.fadeOut /\ ~(pt.duty < DutyMin)

\* fadeOutPort(): the port record when it returns true.
fadeOutPort(pt) ==
  [pt EXCEPT !.pulse.delta = pt.duty \div config.fade.outMsec, !.state = "FadeOut"]

\* The end of a pulse: fade out or release.  [port, pwm]
endPulse(pt, out) ==
  IF fadeOutOk(pt) THEN [port |-> fadeOutPort(pt), pwm |-> out]
  ELSE [port |-> releasePort(pt), pwm |-> 0]

wattsToPWMDuty(resistance, watts, supply) ==
  LET voltage == ISqrt(watts * resistance * 100)
  IN  (Min(voltage, supply) * DutyOne) \div supply

measureCurrent(cur, read) ==
  IF config.current.alphaNum > 0
  THEN (cur * (config.current.alphaDen - config.current.alphaNum)) \div config.current.alphaDen
       + (read * config.current.alphaNum) \div config.current.alphaDen
  ELSE read

\* The low-pass filter of measureResistance().
filterVoltage(old, voltage) ==
  LET start == IF old < 0 THEN voltage ELSE old
  IN  (start * 7) \div 10 + (voltage * 3) \div 10

\* The voltage divider of measureResistance().
dividerResistance(vOut) ==
  IF vOut = VIn THEN Infinity
  ELSE ((vOut - VDiode) * R1) \div (VIn - vOut)

\* A classification that takes the limits themselves as out of range.
classifyStrict(resistance) ==
  IF resistance >= config.resistance.max THEN "NotConnected"
  ELSE IF resistance <= config.resistance.min THEN "ShortCircuit"
  ELSE "Connected"

classify(resistance) ==
  IF resistance > config.resistance.max THEN "NotConnected"
  ELSE IF resistance < config.resistance.min THEN "ShortCircuit"
  ELSE "Connected"

\* measureResistance(): the measure record of the probed port.
measureResistance(m, voltage) ==
  LET v == filterVoltage(m.voltage, voltage)
      r == dividerResistance(v)
  IN  [state |-> classify(r), resistance |-> r, voltage |-> v]

----------------------------------------------------------------------------
(* The drive state machine of one port, one tick.  [port, pwm] *)

driveFadeIn(t, pt, out) ==
  LET duty == pt.duty + pt.pulse.delta
  IN  IF duty >= pt.pulse.target
      THEN [port |-> [pt EXCEPT !.duty = duty, !.pulse.peekUsec = t, !.state = "Peak"],
            pwm |-> duty]
      ELSE [port |-> [pt EXCEPT !.duty = duty], pwm |-> duty]

\* A hold without the reduction.
holdDutyFull(duty) == duty

\* The duty of Hold: the peak duty times hold.fraction.
holdDuty(duty) == (duty * config.hold.fractionNum) \div config.hold.fractionDen

\* A Peak step that ends the pulse without testing its duration.
drivePeakNoDuration(t, pt, out) ==
  IF getUsecSince(t, pt.pulse.peekUsec) > config.hold.peakUsec
  THEN [port |-> [pt EXCEPT !.duty = holdDuty(pt.duty), !.state = "Hold"],
        pwm |-> holdDuty(pt.duty)]
  ELSE endPulse(pt, out)

drivePeak(t, pt, out) ==
  IF getUsecSince(t, pt.pulse.peekUsec) > config.hold.peakUsec
  THEN [port |-> [pt EXCEPT !.duty = holdDuty(pt.duty), !.state = "Hold"],
        pwm |-> holdDuty(pt.duty)]
  ELSE IF getUsecSince(t, pt.pulse.startUsec) < pt.pulse.durationUsec
  THEN [port |-> pt, pwm |-> out]
  ELSE endPulse(pt, out)

driveHold(t, pt, out) ==
  IF getUsecSince(t, pt.pulse.startUsec) < pt.pulse.durationUsec
  THEN [port |-> pt, pwm |-> out]
  ELSE endPulse(pt, out)

\* A FadeOut step that writes the duty it has reached before it tests it.
driveFadeOutWrites(t, pt, out) ==
  LET duty == pt.duty - pt.pulse.delta
  IN  IF duty < 0
      THEN [port |-> releasePort([pt EXCEPT !.duty = duty]), pwm |-> 0]
      ELSE [port |-> [pt EXCEPT !.duty = duty], pwm |-> duty]

driveFadeOut(t, pt, out) ==
  LET duty == pt.duty - pt.pulse.delta
  IN  IF duty <= 0
      THEN [port |-> releasePort([pt EXCEPT !.duty = duty]), pwm |-> 0]
      ELSE [port |-> [pt EXCEPT !.duty = duty], pwm |-> duty]

drivePort(t, pt, out) ==
  CASE pt.state = "Idle" -> [port |-> pt, pwm |-> out]
    [] pt.state = "FadeIn" -> driveFadeIn(t, pt, out)
    [] pt.state = "Peak" -> drivePeak(t, pt, out)
    [] pt.state = "Hold" -> driveHold(t, pt, out)
    [] pt.state = "FadeOut" -> driveFadeOut(t, pt, out)

----------------------------------------------------------------------------
(* The resistance probe, one tick.  [probe, ports, pwm, timeoutUsec] *)

probeInit(t, prb, pts, out, tmo) ==
  [probe |-> [prb EXCEPT !.settleUsec = t, !.state = "Settle",
                         !.cycle = IF prb.ready THEN prb.cycle ELSE 0],
   ports |-> pts, pwm |-> out, timeoutUsec |-> tmo]

\* A Settle state that does not wait.
probeSettleNoWait(t, prb, pts, out, tmo) ==
  [probe |-> [prb EXCEPT !.measureUsec = t, !.state = "Measure"],
   ports |-> pts, pwm |-> [out EXCEPT ![prb.port] = DutyOne], timeoutUsec |-> tmo]

probeSettle(t, prb, pts, out, tmo) ==
  IF getUsecSince(t, prb.settleUsec) < SettleTime
  THEN [probe |-> prb, ports |-> pts, pwm |-> out, timeoutUsec |-> tmo]
  ELSE [probe |-> [prb EXCEPT !.measureUsec = t, !.state = "Measure"],
        ports |-> pts, pwm |-> [out EXCEPT ![prb.port] = DutyOne], timeoutUsec |-> tmo]

\* The pass counter after one more port was measured.
nextCycle(prb) ==
  IF prb.port + 1 = nPorts /\ ~prb.ready THEN (prb.cycle + 1) % 256 ELSE prb.cycle

\* A qualification that ends with the pass that makes the counter reach the
\* limit, instead of the pass that makes it exceed the limit.
nextReadyAtLimit(prb) ==
  prb.ready \/ (prb.port + 1 = nPorts /\ nextCycle(prb) >= ReadyCycles)

nextReady(prb) ==
  prb.ready \/ (prb.port + 1 = nPorts /\ nextCycle(prb) > ReadyCycles)

probeMeasure(t, prb, pts, out, tmo) ==
  IF getUsecSince(t, prb.measureUsec) < MeasureTime
  THEN [probe |-> prb, ports |-> pts, pwm |-> out, timeoutUsec |-> tmo]
  ELSE
    LET m == measureResistance(pts[prb.port].measure, load[prb.port])
        \* a change of the coil state wakes the LED display up
        tmo1 == IF m.state # pts[prb.port].measure.state THEN t ELSE tmo
        pts1 == [pts EXCEPT ![prb.port].measure = m]
        out1 == [out EXCEPT ![prb.port] = 0]
        port1 == IF prb.port + 1 = nPorts THEN 0 ELSE prb.port + 1
        prb1 == [prb EXCEPT !.port = port1, !.cycle = nextCycle(prb), !.ready = nextReady(prb)]
    IN  IF tmo1 = 0
        THEN [probe |-> [prb1 EXCEPT !.sleepUsec = t, !.state = "Sleep"],
              ports |-> pts1, pwm |-> out1, timeoutUsec |-> tmo1]
        ELSE [probe |-> [prb1 EXCEPT !.measureUsec = t],
              ports |-> pts1, pwm |-> [out1 EXCEPT ![port1] = DutyOne], timeoutUsec |-> tmo1]

probeSleep(t, prb, pts, out, tmo) ==
  IF getUsecSince(t, prb.sleepUsec) < SleepTime
  THEN [probe |-> prb, ports |-> pts, pwm |-> out, timeoutUsec |-> tmo]
  ELSE [probe |-> [prb EXCEPT !.measureUsec = t, !.state = "Measure"],
        ports |-> pts, pwm |-> [out EXCEPT ![prb.port] = DutyOne], timeoutUsec |-> tmo]

\* This tick's measurement completes a pass over all ports.
passDone(t, prb) ==
  /\ prb.state = "Measure"
  /\ ~(getUsecSince(t, prb.measureUsec) < MeasureTime)
  /\ prb.port + 1 = nPorts

MaxPasses == ReadyCycles + 2

probeStep(t, prb, pts, out, tmo) ==
  CASE prb.state = "Init" -> probeInit(t, prb, pts, out, tmo)
    [] prb.state = "Settle" -> probeSettle(t, prb, pts, out, tmo)
    [] prb.state = "Measure" -> probeMeasure(t, prb, pts, out, tmo)
    [] prb.state = "Sleep" -> probeSleep(t, prb, pts, out, tmo)

----------------------------------------------------------------------------
(* Operations *)

\* tickAt: the time since boot of the last substantive loop() tick; reset:
\* reset() has been called since that tick; triggerAt: the time since boot of
\* the last accepted trigger while the rail has not been switched off since;
\* track, driveAt: in a run that records it, the time since boot up to which
\* some port was non-Idle; watch, activeAt, measuredAt: in a run that records
\* it, the time since boot at which _timeoutUsec was last written (reset(), a
\* trigger that passed its checks, a change of a coil state) and at which the
\* probe last sampled a port.
ZeroRef ==
  [tickAt |-> -1, reset |-> FALSE, triggerAt |-> -1, track |-> FALSE, driveAt |-> -1,
   watch |-> FALSE, activeAt |-> -1, measuredAt |-> -1]

\* The reference clock of a run that records the drive activity as well.
TrackRef == [ZeroRef EXCEPT !.track = TRUE]

\* The time since boot up to which some port was in a non-Idle DriverState,
\* after a step that ends at time e with the ports pts1.
driveAtNext(e, pts1) ==
  IF ref.track /\ \E p \in Ports : ports[p].state # "Idle" \/ pts1[p].state # "Idle"
  THEN e ELSE ref.driveAt

\* The reference clock of a run that records the activity as well.
WatchRef == [TrackRef EXCEPT !.watch = TRUE]

\* The time since boot of the last write of _timeoutUsec, after a step that
\* ends at time e and has written it or not.
activeAtNext(e, written) == IF ref.watch /\ written THEN e ELSE ref.activeAt

\* The time since boot of the probe's last sample, after a tick that ends at
\* time e and has sampled a port or not.
measuredAtNext(e, sampled) == IF ref.watch /\ sampled THEN e ELSE ref.measuredAt

Called(op, result) == [op |-> op, result |-> result, arg |-> 0, value |-> 0]

\* The record of a call that returns a value.
Returned(op, arg, value) == [op |-> op, result |-> "done", arg |-> arg, value |-> value]

\* The LED timeout of loop().
ledTimeout(t, tmo) ==
  IF tmo > 0 /\ getUsecSince(t, tmo) > LedTimeout THEN 0 ELSE tmo

\* The over-current test of loop().
overCurrent(cur) == cur > config.current.max

\* A shutdown that releases the ports and leaves the probe as it is.
shutdownPortsOnly(pts) ==
  [ports |-> [p \in Ports |-> releasePort(pts[p])],
   pwm |-> [p \in Ports |-> 0],
   probe |-> probe]

\* A shutdown that clears the probe and leaves the ports as they are.
shutdownProbeOnly(pts) == [ports |-> pts, pwm |-> pwm, probe |-> ZeroProbe]

\* The over-current shutdown of loop().  [ports, pwm, probe]
shutdown(pts) ==
  [ports |-> [p \in Ports |-> releasePort(pts[p])],
   pwm |-> [p \in Ports |-> 0],
   probe |-> ZeroProbe]

\* A power-off delay of half the time.
powerDelayHalf(t) == powerUsec > 0 /\ getUsecSince(t, powerUsec) < PowerOffDelay \div 2

\* A power-off delay that never runs out.
powerDelayForever(t) == powerUsec > 0

\* loop() returns early while the power-off delay runs.
powerDelay(t) == powerUsec > 0 /\ getUsecSince(t, powerUsec) < PowerOffDelay

\* A rate limit of half the period.
rateLimitedHalf(t) == getUsecSince(t, loopUsec) < LoopPeriod \div 2

\* The rate limit of loop().
rateLimited(t) == getUsecSince(t, loopUsec) < LoopPeriod

\* reset()
Reset ==
  LET t == now IN
  /\ resets' = resets + 1
  /\ power' = "Off"
  /\ loopUsec' = 0
  /\ powerUsec' = 0
  /\ timeoutUsec' = t
  /\ probe' = ZeroProbe
  /\ current' = 0
  /\ ports' = [p \in Ports |-> ResetPort]
  /\ pwm' = [p \in Ports |-> 0]
  /\ call' = Called("reset", "done")
  /\ passes' = 0
  /\ tripped' = FALSE
  /\ ref' = [ref EXCEPT !.reset = TRUE, !.triggerAt = -1,
                        !.driveAt = driveAtNext(elapsed, ports'),
                        !.activeAt = activeAtNext(elapsed, TRUE)]
  /\ UNCHANGED <<now, elapsed, load, triggers, btnVars, devVars>>

\* loop(), called d after the previous call to the controller; read is what
\* readCurrent() returns.
Loop(d, read) ==
  LET t == (now + d) % Wrap IN
  /\ now' = t
  /\ elapsed' = elapsed + d
  /\ UNCHANGED <<load, resets, triggers, btnVars, devVars>>
  /\ IF rateLimited(t)
     THEN /\ call' = Called("loop", "skipped")
          /\ UNCHANGED <<tripped, loopUsec, powerUsec, timeoutUsec, probe, current, ports, pwm, power, passes>>
     ELSE
       LET tmo == ledTimeout(t, timeoutUsec)
           busy == \E p \in Ports : ports[p].state # "Idle"
           driven == [p \in Ports |-> drivePort(t, ports[p], pwm[p])]
           pts == [p \in Ports |-> driven[p].port]
           out == [p \in Ports |-> driven[p].pwm]
           cur == measureCurrent(current, read)
           prb == probeStep(t, probe, pts, out, tmo)
       IN  /\ loopUsec' = t
           /\ current' = cur
           /\ tripped' = (tripped \/ overCurrent(cur))
           /\ IF overCurrent(cur)
              THEN /\ ports' = shutdown(pts).ports
                   /\ pwm' = shutdown(pts).pwm
                   /\ probe' = shutdown(pts).probe
                   /\ timeoutUsec' = tmo
                   /\ passes' = 0
                   /\ call' = Called("loop", "overCurrent")
                   /\ UNCHANGED <<powerUsec, power>>
              ELSE IF busy
              THEN /\ ports' = pts
                   /\ pwm' = out
                   /\ timeoutUsec' = tmo
                   /\ call' = Called("loop", "busy")
                   /\ UNCHANGED <<probe, powerUsec, power, passes>>
              ELSE IF powerDelay(t)
              THEN /\ ports' = pts
                   /\ pwm' = out
                   /\ timeoutUsec' = tmo
                   /\ call' = Called("loop", "powerDelay")
                   /\ UNCHANGED <<probe, powerUsec, power, passes>>
              ELSE /\ power' = IF powerUsec > 0 THEN "Off" ELSE power
                   /\ powerUsec' = 0
                   /\ probe' = prb.probe
                   /\ ports' = prb.ports
                   /\ pwm' = prb.pwm
                   /\ timeoutUsec' = prb.timeoutUsec
                   /\ passes' = IF passDone(t, probe) THEN Min(passes + 1, MaxPasses) ELSE passes
                   /\ call' = Called("loop", "probe")
  /\ ref' = IF call'.result = "skipped"
            THEN [ref EXCEPT !.driveAt = driveAtNext(elapsed', ports')]
            ELSE [tickAt |-> elapsed', reset |-> FALSE,
                  triggerAt |-> IF power' = "Off" THEN -1 ELSE ref.triggerAt,
                  track |-> ref.track,
                  driveAt |-> driveAtNext(elapsed', ports'),
                  watch |-> ref.watch,
                  activeAt |->
                    activeAtNext(elapsed', \E p \in Ports :
                                             ports'[p].measure.state # ports[p].measure.state),
                  measuredAt |->
                    measuredAtNext(elapsed', /\ call'.result = "probe"
                                             /\ probe.state = "Measure"
                                             /\ ~(getUsecSince(now', probe.measureUsec) < MeasureTime))]

\* The checks triggerPort() makes before it accepts a pulse.
\* A readiness test that lets calls pass once the first pass was counted.
notReadyBeforeFirstPass(prb) == ~prb.ready /\ prb.cycle = 0

notReady(prb) == ~prb.ready
cancels(watts, msec) == watts <= 0 \/ msec <= 0

\* A coil test that rejects only the open circuit.
coilNotOpen(pt) == pt.measure.state # "NotConnected"

\* A coil test that rejects only the short circuit.
coilNotShort(pt) == pt.measure.state # "ShortCircuit"

coilConnected(pt) == pt.measure.state = "Connected"

\* A fade-in condition that does not compare the duty with the target.
startsFadeInAnyDuty(pt, fadeIn, target) == fadeIn /\ target > DutyMin

\* The fade-in condition of triggerPort().
startsFadeIn(pt, fadeIn, target) == fadeIn /\ target > DutyMin /\ pt.duty < target

\* A stop that releases the probed port and leaves the probe's state.
stopProbeKeepState(prb, pts, out) ==
  IF prb.state # "Init"
  THEN [probe |-> prb,
        ports |-> [pts EXCEPT ![prb.port] = releasePort(pts[prb.port])],
        pwm |-> [out EXCEPT ![prb.port] = 0]]
  ELSE [probe |-> prb, ports |-> pts, pwm |-> out]

\* "Stop resistance measurement" in triggerPort().  [probe, ports, pwm]
stopProbe(prb, pts, out) ==
  IF prb.state # "Init"
  THEN [probe |-> [prb EXCEPT !.state = "Init"],
        ports |-> [pts EXCEPT ![prb.port] = releasePort(pts[prb.port])],
        pwm |-> [out EXCEPT ![prb.port] = 0]]
  ELSE [probe |-> prb, ports |-> pts, pwm |-> out]

\* The pulse descriptor triggerPort() writes before it switches the power on.
setPulse(t, pt, msec, fadeIn, fadeOut, target) ==
  [pt EXCEPT !.pulse.startUsec = t,
             !.pulse.durationUsec = Usec(msec * 1000),
             !.pulse.fadeIn = fadeIn,
             !.pulse.fadeOut = fadeOut,
             !.pulse.target = target]

\* The start of the pulse in triggerPort(), once the power is on.  [port, pwm]
startPulse(t, pt, out, msec, fadeIn) ==
  IF startsFadeIn(pt, fadeIn, pt.pulse.target)
  THEN [port |-> [pt EXCEPT !.pulse.delta = pt.pulse.target \div Min(config.fade.inMsec, msec),
                            !.state = "FadeIn"],
        pwm |-> out]
  ELSE [port |-> [pt EXCEPT !.duty = pt.pulse.target, !.pulse.peekUsec = t,
                            !.state = "Peak"],
        pwm |-> pt.pulse.target]

\* triggerPort(port, watts, seconds, fadeIn, fadeOut); msec is seconds * 1000,
\* supply what readVoltage() returns, powerOk what setPower(On) returns.
TriggerPort(port, watts, msec, fadeIn, fadeOut, supply, powerOk) ==
  LET t == now IN
  /\ UNCHANGED <<now, elapsed, loopUsec, current, load, resets, tripped, passes, btnVars, devVars>>
  /\ triggers' = IF probe.ready THEN triggers + 1 ELSE triggers
  /\ IF notReady(probe)
     THEN /\ call' = Called("triggerPort", "notReady")
          /\ UNCHANGED <<powerUsec, timeoutUsec, probe, ports, pwm, power>>
     ELSE IF cancels(watts, msec)
     THEN /\ IF fadeOut /\ fadeOutOk(ports[port])
             THEN /\ ports' = [ports EXCEPT ![port] = fadeOutPort(ports[port])]
                  /\ pwm' = pwm
             ELSE /\ ports' = [ports EXCEPT ![port] = releasePort(ports[port])]
                  /\ pwm' = [pwm EXCEPT ![port] = 0]
          /\ call' = Called("triggerPort", "cancel")
          /\ UNCHANGED <<powerUsec, timeoutUsec, probe, power>>
     ELSE IF ~coilConnected(ports[port])
     THEN /\ call' = Called("triggerPort", "notConnected")
          /\ UNCHANGED <<powerUsec, timeoutUsec, probe, ports, pwm, power>>
     ELSE IF overCurrent(current)
     THEN /\ call' = Called("triggerPort", "overCurrent")
          /\ UNCHANGED <<powerUsec, timeoutUsec, probe, ports, pwm, power>>
     ELSE
       LET stopped == stopProbe(probe, ports, pwm)
           target == wattsToPWMDuty(stopped.ports[port].measure.resistance, watts, supply)
           pulsed == setPulse(t, stopped.ports[port], msec, fadeIn, fadeOut, target)
           started == startPulse(t, pulsed, stopped.pwm[port], msec, fadeIn)
       IN  /\ probe' = stopped.probe
           /\ timeoutUsec' = t
           /\ IF ~powerOk
              THEN /\ ports' = [stopped.ports EXCEPT ![port] = pulsed]
                   /\ pwm' = stopped.pwm
                   /\ call' = Called("triggerPort", "noPower")
                   /\ UNCHANGED <<powerUsec, power>>
              ELSE /\ power' = "On"
                   /\ powerUsec' = t
                   /\ ports' = [stopped.ports EXCEPT ![port] = started.port]
                   /\ pwm' = [stopped.pwm EXCEPT ![port] = started.pwm]
                   /\ call' = Called("triggerPort", "accepted")
  /\ ref' = [ref EXCEPT !.triggerAt = IF call'.result = "accepted" THEN elapsed ELSE @,
                        !.driveAt = driveAtNext(elapsed, ports'),
                        !.activeAt = activeAtNext(elapsed, call'.result \in {"accepted", "noPower"})]

\* A getResistance() that returns the stored resistance whatever the state.
getResistanceStored(pt) == pt.measure.resistance

\* getResistance(port): the value returned.
getResistance(pt) ==
  CASE pt.measure.state = "NotConnected" -> -1
    [] pt.measure.state = "Connected" -> pt.measure.resistance
    [] pt.measure.state = "ShortCircuit" -> 0

GetResistance(port) ==
  /\ call' = Returned("getResistance", port, getResistance(ports[port]))
  /\ UNCHANGED <<now, elapsed, loopUsec, powerUsec, timeoutUsec, probe, current, ports,
                 pwm, power, load, resets, triggers, tripped, passes, ref, btnVars, devVars>>

\* getCurrent()
GetCurrent ==
  /\ call' = Returned("getCurrent", 0, current)
  /\ UNCHANGED <<now, elapsed, loopUsec, powerUsec, timeoutUsec, probe, current, ports,
                 pwm, power, load, resets, triggers, tripped, passes, ref, btnVars, devVars>>

----------------------------------------------------------------------------
(* V2Buttons *)

nButtons == 2
Buttons == 1 .. nButtons

\* Button 1 counts clicks and detects long presses, button 2 has no Config.
buttonConfig ==
  <<[clickUsec |-> Usec(6 * 1000), holdUsec |-> Usec(7 * 1000)],
    [clickUsec |-> 0, holdUsec |-> 0]>>

ScanPeriod == Usec(1000)
Debounce == Usec(5 * 1000)
ClicksWrap == 2^8

ButtonState == {"Idle", "WaitDown", "Down", "Hold", "Up", "Reset"}

ZeroButton == [state |-> "Idle", clicks |-> 0, usec |-> 0, event |-> 0, busy |-> FALSE]
ZeroDispatch == [usec |-> 0, event |-> 0, busy |-> TRUE]

\* riseUsec, fallUsec: when the pin was last asserted, deasserted; isolated:
\* the pin had been deasserted for the debounce time or longer when it was
\* asserted; short: the last completed press was shorter than the debounce
\* time; seenIn: the state of the button when a poll first read this press;
\* hooks: the number of hooks called since the pin was asserted; count: the
\* number of presses since the button was last Idle.
ZeroPress ==
  [riseUsec |-> 0, fallUsec |-> 0, isolated |-> FALSE, short |-> FALSE, seenIn |-> "none",
   hooks |-> 0, count |-> 0]

\* A hook call: its name, its count argument, what getEvent() returns in it.
Hook(name, count, btn) == [hook |-> name, count |-> count, event |-> btn.event]

\* _buttons.event is a uint32_t; it is held as the 32-bit two's complement
\* integer with the same bits, so 2^32 - 1 is -1 and 2^31 is -EventMax - 1.
EventMax == 2147483647

\* _buttons.event++: the counter after the increment.
nextEvent(ev) == IF ev = EventMax THEN -EventMax - 1 ELSE ev + 1

(* Button::loop(), one case per state.  [button, hooks, event]: the button,
   the hooks called, the global event counter after the call. *)

\* An Idle state that hands out the event number without counting on.
loopIdleSameEvent(t, btn, down, cfg, ev) ==
  IF down
  THEN [button |-> [btn EXCEPT !.state = "WaitDown", !.usec = t, !.event = ev, !.busy = TRUE],
        hooks |-> <<>>, event |-> ev]
  ELSE [button |-> btn, hooks |-> <<>>, event |-> ev]

loopIdle(t, btn, down, cfg, ev) ==
  IF down
  THEN [button |-> [btn EXCEPT !.state = "WaitDown", !.usec = t, !.event = ev, !.busy = TRUE],
        hooks |-> <<>>, event |-> nextEvent(ev)]
  ELSE [button |-> btn, hooks |-> <<>>, event |-> ev]

loopWaitDown(t, btn, down, cfg, ev) ==
  IF getUsecSince(t, btn.usec) < Debounce
  THEN [button |-> btn, hooks |-> <<>>, event |-> ev]
  ELSE IF down
  THEN [button |-> [btn EXCEPT !.state = "Down"],
        hooks |-> <<Hook("handleDown", 0, btn)>>, event |-> ev]
  ELSE [button |-> [btn EXCEPT !.state = "Reset"], hooks |-> <<>>, event |-> ev]

\* A Down state that takes holdUsec = 0 for a hold time of zero.
loopDownHoldsAtZero(t, btn, down, cfg, ev) ==
  IF down
  THEN IF getUsecSince(t, btn.usec) < cfg.holdUsec
       THEN [button |-> btn, hooks |-> <<>>, event |-> ev]
       ELSE [button |-> [btn EXCEPT !.state = "Hold"],
             hooks |-> <<Hook("handleHold", btn.clicks, btn)>>, event |-> ev]
  ELSE [button |-> [btn EXCEPT !.state = "Up", !.usec = t, !.busy = TRUE],
        hooks |-> <<>>, event |-> ev]

loopDown(t, btn, down, cfg, ev) ==
  IF down
  THEN IF cfg.holdUsec = 0
       THEN [button |-> [btn EXCEPT !.busy = FALSE], hooks |-> <<>>, event |-> ev]
       ELSE IF getUsecSince(t, btn.usec) < cfg.holdUsec
       THEN [button |-> btn, hooks |-> <<>>, event |-> ev]
       ELSE [button |-> [btn EXCEPT !.state = "Hold"],
             hooks |-> <<Hook("handleHold", btn.clicks, btn)>>, event |-> ev]
  ELSE [button |-> [btn EXCEPT !.state = "Up", !.usec = t, !.busy = TRUE],
        hooks |-> <<>>, event |-> ev]

\* A Hold state that reports the release of a long press as a click.
loopHoldClicks(t, btn, down, cfg, ev) ==
  IF down
  THEN [button |-> [btn EXCEPT !.busy = FALSE], hooks |-> <<>>, event |-> ev]
  ELSE [button |-> [btn EXCEPT !.state = "Reset", !.busy = TRUE],
        hooks |-> <<Hook("handleClick", btn.clicks, btn), Hook("handleUp", 0, btn)>>,
        event |-> ev]

\* A Hold state that keeps polling while the button is held.
loopHoldPolls(t, btn, down, cfg, ev) ==
  IF down
  THEN [button |-> [btn EXCEPT !.busy = TRUE], hooks |-> <<>>, event |-> ev]
  ELSE [button |-> [btn EXCEPT !.state = "Reset", !.busy = TRUE],
        hooks |-> <<Hook("handleRelease", 0, btn), Hook("handleUp", 0, btn)>>,
        event |-> ev]

loopHold(t, btn, down, cfg, ev) ==
  IF down
  THEN [button |-> [btn EXCEPT !.busy = FALSE], hooks |-> <<>>, event |-> ev]
  ELSE [button |-> [btn EXCEPT !.state = "Reset", !.busy = TRUE],
        hooks |-> <<Hook("handleRelease", 0, btn), Hook("handleUp", 0, btn)>>,
        event |-> ev]

\* An Up state that takes a new press without counting it.
loopUpNoCount(t, btn, down, cfg, ev) ==
  IF cfg.clickUsec > 0 /\ down
  THEN [button |-> [btn EXCEPT !.state = "Down", !.usec = t],
        hooks |-> <<>>, event |-> ev]
  ELSE IF cfg.clickUsec > 0 /\ getUsecSince(t, btn.usec) < cfg.clickUsec
  THEN [button |-> btn, hooks |-> <<>>, event |-> ev]
  ELSE [button |-> [btn EXCEPT !.state = "Reset"],
        hooks |-> <<Hook("handleClick", btn.clicks, btn), Hook("handleUp", 0, btn)>>,
        event |-> ev]

\* An Up state that reports every further press of a sequence with handleDown.
loopUpDownAgain(t, btn, down, cfg, ev) ==
  IF cfg.clickUsec > 0 /\ down
  THEN [button |-> [btn EXCEPT !.state = "Down", !.clicks = (@ + 1) % ClicksWrap, !.usec = t],
        hooks |-> <<Hook("handleDown", 0, btn)>>, event |-> ev]
  ELSE IF cfg.clickUsec > 0 /\ getUsecSince(t, btn.usec) < cfg.clickUsec
  THEN [button |-> btn, hooks |-> <<>>, event |-> ev]
  ELSE [button |-> [btn EXCEPT !.state = "Reset"],
        hooks |-> <<Hook("handleClick", btn.clicks, btn), Hook("handleUp", 0, btn)>>,
        event |-> ev]

loopUp(t, btn, down, cfg, ev) ==
  IF cfg.clickUsec > 0 /\ down
  THEN [button |-> [btn EXCEPT !.state = "Down", !.clicks = (@ + 1) % ClicksWrap, !.usec = t],
        hooks |-> <<>>, event |-> ev]
  ELSE IF cfg.clickUsec > 0 /\ getUsecSince(t, btn.usec) < cfg.clickUsec
  THEN [button |-> btn, hooks |-> <<>>, event |-> ev]
  ELSE [button |-> [btn EXCEPT !.state = "Reset"],
        hooks |-> <<Hook("handleClick", btn.clicks, btn), Hook("handleUp", 0, btn)>>,
        event |-> ev]

loopReset(t, btn, down, cfg, ev) ==
  [button |-> [btn EXCEPT !.state = "Idle", !.clicks = 0, !.busy = FALSE, !.event = 0],
   hooks |-> <<>>, event |-> ev]

buttonLoop(t, btn, down, cfg, ev) ==
  CASE btn.state = "Idle" -> loopIdle(t, btn, down, cfg, ev)
    [] btn.state = "WaitDown" -> loopWaitDown(t, btn, down, cfg, ev)
    [] btn.state = "Down" -> loopDown(t, btn, down, cfg, ev)
    [] btn.state = "Hold" -> loopHold(t, btn, down, cfg, ev)
    [] btn.state = "Up" -> loopUp(t, btn, down, cfg, ev)
    [] btn.state = "Reset" -> loopReset(t, btn, down, cfg, ev)

ZeroWake == [flagged |-> FALSE, unseen |-> {}]

\* An interrupt handler that leaves the flag alone.
pinInterruptNone(d) == d

\* pinInterrupt()
pinInterrupt(d) == [d EXCEPT !.busy = TRUE]

\* A loop() that scans whenever the flag is set.
loopScansOnFlag(t, d) == d.busy

\* V2Buttons::loop(): the two tests passed before the scan.
loopScans(t, d) == d.busy /\ ~(getUsecSince(t, d.usec) < ScanPeriod)

\* A scan that takes over what the button polled last returned.
scanBusyLast(flag, returned) == returned

\* V2Buttons::loop(): the flag after one button of the scan.
scanBusy(flag, returned) == flag \/ returned

\* A pin changes its level: the CHANGE interrupt runs pinInterrupt().
PinChange(b) ==
  /\ pins' = [pins EXCEPT ![b] = ~pins[b]]
  /\ dispatch' = pinInterrupt(dispatch)
  /\ wake' = [flagged |-> TRUE, unseen |-> wake.unseen \cup {b}]
  /\ edges' = edges + 1
  /\ press' = [press EXCEPT ![b] =
                 IF pins[b]
                 THEN [@ EXCEPT !.fallUsec = now,
                                !.short = getUsecSince(now, press[b].riseUsec) < Debounce]
                 ELSE [@ EXCEPT !.riseUsec = now, !.short = FALSE, !.seenIn = "none", !.hooks = 0,
                                !.isolated = press[b].count = 0
                                               \/ ~(getUsecSince(now, press[b].fallUsec) < Debounce),
                                !.count = IF buttons[b].state \in {"Idle", "Reset"} THEN 1 ELSE @ + 1]]
  /\ UNCHANGED <<now, elapsed, solVars, devVars, buttons, scan, hooks, configs>>

\* Time passes between two calls of V2Buttons::loop().
Elapse(d) ==
  /\ scan = 0
  /\ now' = (now + d) % Wrap
  /\ elapsed' = elapsed + d
  /\ UNCHANGED <<solVars, btnVars, devVars>>

\* V2Buttons::loop(), up to the scan of the list.
LoopEnter ==
  /\ scan = 0
  /\ IF ~loopScans(now, dispatch)
     THEN UNCHANGED <<dispatch, scan, wake>>
     ELSE /\ dispatch' = [dispatch EXCEPT !.usec = now, !.busy = FALSE]
          /\ scan' = 1
          /\ wake' = [wake EXCEPT !.flagged = FALSE]
  /\ UNCHANGED <<now, elapsed, solVars, devVars, pins, buttons, hooks, press, edges, configs>>

\* V2Buttons::loop(), one iteration of the scan: button->loop() of button b.
LoopButton(b) ==
  LET r == buttonLoop(now, buttons[b], pins[b], configs[b], dispatch.event) IN
  /\ scan = b
  /\ buttons' = [buttons EXCEPT ![b] = r.button]
  /\ dispatch' = [dispatch EXCEPT !.busy = scanBusy(@, r.button.busy), !.event = r.event]
  /\ wake' = [wake EXCEPT !.unseen = @ \ {b}]
  /\ scan' = IF b = nButtons THEN 0 ELSE b + 1
  /\ hooks' = [hooks EXCEPT ![b] =
                 IF buttons[b].state = "Idle" /\ r.button.state # "Idle" THEN <<>> ELSE @ \o r.hooks]
  /\ press' = [press EXCEPT ![b].seenIn = IF pins[b] /\ @ = "none" THEN buttons[b].state ELSE @,
                            ![b].hooks = @ + Len(r.hooks)]
  /\ UNCHANGED <<now, elapsed, solVars, devVars, pins, edges, configs>>

-----------------------------------------------------------------------------
(* V2Device: the system exclusive requests *)

\* usb.ports of the device: the standard and the access number of MIDI ports.
usbPorts == [standard |-> 1, access |-> 0]

\* Values V2Base::Cryptography::Random::read() may return to begin().
BootIds == {0, 1, 7}

\* The EEPROM after a chip erase: no valid header.
Blank == -1

\* The device after a cold start, before begin(): BootData() has cleared the
\* boot data, the EEPROM is blank.
ColdDevice ==
  [running |-> FALSE, bootId |-> 0, bootAccess |-> FALSE, enableAccess |-> FALSE,
   current |-> 1, eepromPorts |-> 0, stored |-> Blank, channel |-> 0,
   firmware |-> "none"]

\* The number of ports begin() sets.
portsCurrent(access, eepromPorts, was) ==
  IF access THEN (IF usbPorts.access > 0 THEN usbPorts.access ELSE 16)
  ELSE IF eepromPorts > 0 THEN eepromPorts
  ELSE IF usbPorts.standard > 0 THEN usbPorts.standard
  ELSE was

\* begin() after a start or a reboot: the memory is initialized again, the
\* boot data and the EEPROM are kept.
begin(dev, id) ==
  LET read == IF dev.stored = Blank THEN 0 ELSE dev.stored IN
  [dev EXCEPT !.running = TRUE,
              !.bootId = id,
              !.enableAccess = dev.bootAccess,
              !.bootAccess = FALSE,
              !.eepromPorts = read,
              !.current = portsCurrent(dev.bootAccess, read, 1),
              !.channel = 0]

\* V2Base::Memory::Firmware::reboot()
reboot(dev) == [dev EXCEPT !.running = FALSE]

NoValue == -1

\* A request: framed is false for a message the checks before the token
\* check drop; value is the channel of switchChannel or the ports of
\* writeConfiguration (NoValue: not given); aligned and hash ("none", "good",
\* "bad") belong to writeFirmware.
Request(framed, tok, m, value, aligned, hash) ==
  [framed |-> framed, hasToken |-> tok.hasToken, token |-> tok.token, method |-> m,
   value |-> value, aligned |-> aligned, hash |-> hash]

\* The token of a request: none (or null), or a number.
Tokens ==
  {[hasToken |-> FALSE, token |-> 0]} \cup {[hasToken |-> TRUE, token |-> t] : t \in BootIds}

Requests ==
  {Request(f, tok, m, NoValue, TRUE, "none") :
     f \in BOOLEAN, tok \in Tokens,
     m \in {"getAll", "eraseConfiguration", "reboot", "rebootWithPorts", "other"}}
  \cup {Request(TRUE, tok, "switchChannel", v, TRUE, "none") :
          tok \in Tokens, v \in {NoValue, 4}}
  \cup {Request(TRUE, tok, "writeConfiguration", v, TRUE, "none") :
          tok \in Tokens, v \in {NoValue, 4, 17}}
  \cup {Request(TRUE, tok, "writeFirmware", 0, x[1], x[2]) :
          tok \in Tokens,
          x \in {<<FALSE, "none">>, <<TRUE, "none">>, <<TRUE, "good">>, <<TRUE, "bad">>}}

Handled(req, sent) == [request |-> req, sent |-> sent]
NoRequest ==
  Handled([framed |-> FALSE, hasToken |-> FALSE, token |-> 0, method |-> "none",
           value |-> NoValue, aligned |-> FALSE, hash |-> "none"], "none")

\* A token check that lets every token pass.
tokenMismatchNever(req, dev) == FALSE

\* The token check of handleSystemExclusive().
tokenMismatch(req, dev) == req.hasToken /\ req.token # dev.bootId

\* writeConfiguration: the ports of the request, then writeConfiguration().
writeConfiguration(dev, count) ==
  LET p == IF count # NoValue /\ count <= 16 THEN count ELSE dev.eepromPorts IN
  [dev EXCEPT !.eepromPorts = p, !.stored = p]

\* writeFirmware: [device, sent]
writeFirmware(dev, req) ==
  IF ~req.aligned THEN [device |-> dev, sent |-> "invalidOffset"]
  ELSE CASE req.hash = "none" ->
              [device |-> [dev EXCEPT !.firmware = "written"], sent |-> "success"]
         [] req.hash = "good" ->
              [device |-> reboot([dev EXCEPT !.firmware = "activated"]), sent |-> "success"]
         [] OTHER ->
              [device |-> [dev EXCEPT !.firmware = "written"], sent |-> "hashMismatch"]

\* The methods of handleSystemExclusive(): [device, sent]
method(dev, req) ==
  CASE req.method = "getAll" -> [device |-> dev, sent |-> "reply"]
    [] req.method = "eraseConfiguration" ->
         [device |-> reboot([dev EXCEPT !.stored = Blank]), sent |-> "none"]
    [] req.method = "switchChannel" ->
         [device |-> IF req.value # NoValue THEN [dev EXCEPT !.channel = req.value] ELSE dev,
          sent |-> "reply"]
    [] req.method = "reboot" -> [device |-> reboot(dev), sent |-> "none"]
    [] req.method = "rebootWithPorts" ->
         [device |-> reboot([dev EXCEPT !.bootAccess = TRUE]), sent |-> "none"]
    [] req.method = "writeConfiguration" ->
         [device |-> writeConfiguration(dev, req.value), sent |-> "reply"]
    [] req.method = "writeFirmware" -> writeFirmware(dev, req)
    [] OTHER -> [device |-> dev, sent |-> "none"]

\* handleSystemExclusive()
HandleSystemExclusive(req) ==
  /\ device.running
  /\ UNCHANGED <<now, elapsed, solVars, btnVars>>
  /\ IF ~req.framed \/ tokenMismatch(req, device)
     THEN /\ handled' = Handled(req, "none")
          /\ UNCHANGED device
     ELSE /\ device' = method(device, req).device
          /\ handled' = Handled(req, method(device, req).sent)

\* begin(), after a reboot
Begin(id) ==
  /\ ~device.running
  /\ device' = begin(device, id)
  /\ handled' = NoRequest
  /\ UNCHANGED <<now, elapsed, solVars, btnVars>>

\* What the first word of the .noinit section may hold when the power comes
\* on: the memory is undefined, so the magic number, or anything else.
NoinitWords == {"0x8f734e41", "other"}

\* BootData(): bootData.usb.ports.enableAccess after the constructor, from
\* what the memory held.
BootData(magic, enableAccess) == IF magic = "0x8f734e41" THEN enableAccess ELSE FALSE

\* The power is switched off and on again: the memory is lost, the .noinit
\* section holds magic and enableAccess, the EEPROM and the flash are kept.
ColdStart(magic, enableAccess) ==
  /\ device' = [ColdDevice EXCEPT !.bootAccess = BootData(magic, enableAccess),
                                  !.stored = device.stored,
                                  !.firmware = device.firmware]
  /\ handled' = NoRequest
  /\ UNCHANGED <<now, elapsed, solVars, btnVars>>

InitCycles == {0, 255}

\* The controller as constructed, before reset(), and the buttons; events
\* are the values of the event counter the run may start from, cfgs the
\* Configs the buttons may have been constructed with, ids the boot ids the
\* random number generator may have returned to begin(), refs the reference
\* clocks (recording the drive activity or not), times the values of the
\* microsecond counter at construction.
InitAt(times, wirings, events, cfgs, ids, refs) ==
  /\ now \in times
  /\ elapsed = 0
  /\ loopUsec = 0
  /\ powerUsec = 0
  /\ timeoutUsec = 0
  /\ probe \in {[ZeroProbe EXCEPT !.cycle = c] : c \in InitCycles}
  /\ current = 0
  /\ ports = [p \in Ports |-> ZeroPort]
  /\ pwm = [p \in Ports |-> 0]
  /\ power = "Off"
  /\ load \in {[p \in Ports |-> w[p + 1]] : w \in wirings}
  /\ resets = 0
  /\ triggers = 0
  /\ tripped = FALSE
  /\ passes = 0
  /\ call = Called("none", "done")
  /\ ref \in refs
  /\ pins = [b \in Buttons |-> FALSE]
  /\ buttons = [b \in Buttons |-> ZeroButton]
  /\ dispatch \in {[ZeroDispatch EXCEPT !.event = e] : e \in events}
  /\ scan = 0
  /\ hooks = [b \in Buttons |-> <<>>]
  /\ press = [b \in Buttons |-> ZeroPress]
  /\ edges = 0
  /\ wake = ZeroWake
  /\ configs \in cfgs
  /\ device \in {begin(ColdDevice, id) : id \in ids}
  /\ handled = NoRequest

InitWith(wirings, events, cfgs, ids, refs) == InitAt(BootTimes, wirings, events, cfgs, ids, refs)

InitFrom(wirings, events, cfgs, ids) == InitWith(wirings, events, cfgs, ids, {ZeroRef})

InitWired(wirings) == InitFrom(wirings, {0}, {buttonConfig}, {1})

Init == InitWired(Wirings)

\* readCurrent(): the sensor sits in the main power rail, which carries no
\* current while it is switched off.
readCurrent == IF power = "On" THEN Currents ELSE {0}

\* Bounds of the model: reset() is called at start-up and, once more, when the
\* controller is ready; the run ends at the horizon; the number of
\* triggerPort() calls made while ready is limited.
MayReset == resets < MaxResets /\ ((resets = 0 /\ elapsed = 0) \/ probe.ready)
MayLoop(d) == elapsed + d <= HorizonTime
MayTrigger == probe.ready => triggers < MaxTriggers

Next ==
  \/ MayReset /\ Reset
  \/ \E d \in Steps, read \in readCurrent : MayLoop(d) /\ Loop(d, read)
  \/ \E a \in Triggers, supply \in Supplies, powerOk \in BOOLEAN :
       MayTrigger /\ TriggerPort(a[1], a[2], a[3], a[4], a[5], supply, powerOk)

Spec == Init /\ [][Next]_vars

----------------------------------------------------------------------------
(* The buttons alone.  A pin changes at any time, also in the middle of a
   scan, while the other buttons are at rest; V2Buttons::loop() is called at
   least once per millisecond. *)

ButtonHorizon == 16
MaxEdges == 4
ButtonSteps == {Usec(1000)}

\* V2Buttons::loop() has scanned at the current time, or has nothing to do.
Polled == dispatch.usec = now \/ ~dispatch.busy

InitButtons == Init /\ probe = ZeroProbe /\ \A p \in Ports : load[p] = 800

MayPinChange(b) ==
  /\ edges < MaxEdges
  /\ \A c \in Buttons \ {b} : ~pins[c] /\ buttons[c].state = "Idle"
MayElapse(d) == Polled /\ elapsed + d <= ButtonHorizon * Usec(1000)

NextButtons ==
  \/ \E b \in Buttons : MayPinChange(b) /\ PinChange(b)
  \/ \E d \in ButtonSteps : MayElapse(d) /\ Elapse(d)
  \/ LoopEnter
  \/ \E b \in Buttons : LoopButton(b)

SpecButtons == InitButtons /\ [][NextButtons]_vars

----------------------------------------------------------------------------
(* Both buttons at once.  The pins change in any order and at any point of a
   scan; the event counter starts at 0, in the middle of its range or at its
   last value. *)

EventHorizon == 8
MaxEventEdges == 3
InitEvents == {0, EventMax, -1}

InitBothButtons ==
  /\ InitFrom({<<800, 800>>}, InitEvents, {buttonConfig}, {1})
  /\ probe = ZeroProbe

MayPinChangeEvents == edges < MaxEventEdges
MayElapseEvents(d) == Polled /\ elapsed + d <= EventHorizon * Usec(1000)

NextEvents ==
  \/ \E b \in Buttons : MayPinChangeEvents /\ PinChange(b)
  \/ \E d \in ButtonSteps : MayElapseEvents(d) /\ Elapse(d)
  \/ LoopEnter
  \/ \E b \in Buttons : LoopButton(b)

SpecEvents == InitBothButtons /\ [][NextEvents]_vars

----------------------------------------------------------------------------
(* Button 1 with each kind of Config: none (all zero), click counting only,
   hold detection only, both.  Its pin changes at any time, also in the
   middle of a scan. *)

ConfigHorizon == 15
MaxConfigEdges == 4
ButtonConfigs ==
  {<<[clickUsec |-> c, holdUsec |-> h], buttonConfig[2]>> :
     c \in {0, buttonConfig[1].clickUsec}, h \in {0, buttonConfig[1].holdUsec}}

InitConfigs ==
  /\ InitFrom({<<800, 800>>}, {0}, ButtonConfigs, {1})
  /\ probe = ZeroProbe

MayPinChangeConfigs == edges < MaxConfigEdges
MayElapseConfigs(d) == Polled /\ elapsed + d <= ConfigHorizon * Usec(1000)

NextConfigs ==
  \/ MayPinChangeConfigs /\ PinChange(1)
  \/ \E d \in ButtonSteps : MayElapseConfigs(d) /\ Elapse(d)
  \/ LoopEnter
  \/ \E b \in Buttons : LoopButton(b)

SpecConfigs == InitConfigs /\ [][NextConfigs]_vars

----------------------------------------------------------------------------
(* Rapid clicking of button 1: presses of ClickPress, ClickGap apart, polled
   every millisecond, until the finger stops and the dispatcher is idle. *)

MaxPresses == 257
ClickPress == Usec(6 * 1000)
ClickGap == Usec(2 * 1000)

MayPress ==
  /\ scan = 0 /\ ~pins[1]
  /\ \/ press[1].count = 0
     \/ /\ press[1].count < MaxPresses
        /\ buttons[1].state = "Up"
        /\ getUsecSince(now, press[1].fallUsec) = ClickGap
MayRelease ==
  /\ scan = 0 /\ pins[1] /\ Polled
  /\ getUsecSince(now, press[1].riseUsec) = ClickPress
MayWait ==
  /\ Polled
  /\ press[1].count > 0
  /\ pins[1] => getUsecSince(now, press[1].riseUsec) < ClickPress
  /\ pins[1] \/ dispatch.busy

NextClicks ==
  \/ (MayPress \/ MayRelease) /\ PinChange(1)
  \/ \E d \in ButtonSteps : MayWait /\ Elapse(d)
  \/ LoopEnter
  \/ \E b \in Buttons : LoopButton(b)

SpecClicks == InitButtons /\ [][NextClicks]_vars

----------------------------------------------------------------------------
(* Recovery from an over-current shutdown.  Two coils are connected, reset()
   is called at start-up only, loop() keeps being called, and readCurrent()
   reads no current any more once loop() has shut down for over-current.
   The run ends at the horizon, or later when the probe is still qualifying
   after a shutdown, and at the latest at the limit. *)

RecoverHorizon == 50
RecoverHorizonTime == RecoverHorizon * Usec(10 * 1000)
RecoverLimit == 3000
RecoverLimitTime == RecoverLimit * Usec(10 * 1000)
RecoverTriggers == {<<0, 5, 20, FALSE, FALSE>>, <<1, 20, 10, TRUE, FALSE>>}

InitRecover == Init /\ probe = ZeroProbe /\ \A p \in Ports : load[p] = 800

readUntilTripped == IF power = "On" /\ ~tripped THEN Currents ELSE {0}

MayResetRecover == resets = 0 /\ elapsed = 0
MayLoopRecover(d) ==
  \/ elapsed + d <= RecoverHorizonTime
  \/ tripped /\ ~probe.ready /\ elapsed + d <= RecoverLimitTime

LoopRecover == \E d \in Steps, read \in readUntilTripped : MayLoopRecover(d) /\ Loop(d, read)

NextRecover ==
  \/ MayResetRecover /\ Reset
  \/ LoopRecover
  \/ \E a \in RecoverTriggers, supply \in Supplies :
       MayTrigger /\ TriggerPort(a[1], a[2], a[3], a[4], a[5], supply, TRUE)

\* The main loop keeps calling loop().
SpecRecover == InitRecover /\ [][NextRecover]_vars /\ WF_vars(LoopRecover)

----------------------------------------------------------------------------
(* The resistance probe alone.  The ports are wired to loads at and around
   the limits of config.resistance; reset() is called at start-up or not at
   all, loop() ticks with the power rail off, and the application reads the
   measurements at any time. *)

ProbeHorizon == 32
ProbeHorizonTime == ProbeHorizon * Usec(10 * 1000)
ProbeWirings == {<<470, 1430>>, <<450, 1440>>, <<800, VIn>>, <<VDiode, 800>>}

\* What readCurrent() returns with the rail off: the sensor's offset.
ProbeCurrents == {0, 2}

InitProbe == InitWired(ProbeWirings)

MayLoopProbe(d) == elapsed + d <= ProbeHorizonTime
\* The application reads after a call to the controller, once per call.
MayGet == call.op \in {"reset", "loop"}

NextProbe ==
  \/ MayResetRecover /\ Reset
  \/ \E d \in Steps, read \in ProbeCurrents : MayLoopProbe(d) /\ Loop(d, read)
  \/ \E p \in Ports : MayGet /\ GetResistance(p)
  \/ MayGet /\ GetCurrent

SpecProbe == InitProbe /\ [][NextProbe]_vars

----------------------------------------------------------------------------
(* The controller called faster than once per millisecond.  Two coils are
   connected; loop() is called every 10 ms while the probe qualifies the
   ports, and from then on 400 us or 600 us after the previous call, with
   triggerPort() and reset() called in between. *)

FineFrom == 43
FineFromTime == FineFrom * Usec(10 * 1000)
FineHorizon == 4
FineHorizonTime == FineFromTime + FineHorizon * Usec(1000)
FineSteps == {Usec(400), Usec(600)}

InitFine == Init /\ probe = ZeroProbe /\ \A p \in Ports : load[p] = 800

MayLoopFine(d) ==
  IF elapsed < FineFromTime
  THEN d \in Steps
  ELSE d \in FineSteps /\ elapsed + d <= FineHorizonTime

MaxFineResets == 1
MaxFineTriggers == 1
MayResetFine == resets < MaxFineResets /\ ((resets = 0 /\ elapsed = 0) \/ probe.ready)
MayTriggerFine == probe.ready => triggers < MaxFineTriggers

NextFine ==
  \/ MayResetFine /\ Reset
  \/ \E d \in Steps \cup FineSteps, read \in readCurrent : MayLoopFine(d) /\ Loop(d, read)
  \/ \E a \in Triggers, supply \in Supplies, powerOk \in BOOLEAN :
       MayTriggerFine /\ TriggerPort(a[1], a[2], a[3], a[4], a[5], supply, powerOk)

SpecFine == InitFine /\ [][NextFine]_vars

(* After the drive.  Two coils are connected, reset() is called at start-up,
   loop() ticks every 10 ms up to the horizon, long enough for the power-off
   delay, the settle time and a measurement after a pulse.  triggerPort() is
   called up to the end of a window after the controller became ready, and the
   run records up to when a port was driven. *)
SettleHorizon == 94
SettleHorizonTime == SettleHorizon * Usec(10 * 1000)
SettleWindow == 48
SettleWindowTime == SettleWindow * Usec(10 * 1000)
MaxSettleTriggers == 2
SettleTriggers ==
  {<<0, 5, 20, FALSE, FALSE>>, <<1, 20, 10, TRUE, TRUE>>,
   <<0, 0, 20, FALSE, FALSE>>, <<1, 0, 0, TRUE, TRUE>>}

InitSettle ==
  /\ InitWith({<<800, 800>>}, {0}, {buttonConfig}, {1}, {TrackRef})
  /\ probe = ZeroProbe

MayLoopSettle(d) == elapsed + d <= SettleHorizonTime
MayTriggerSettle ==
  probe.ready => (triggers < MaxSettleTriggers /\ elapsed <= SettleWindowTime)

LoopSettle == \E d \in Steps, read \in readUntilTripped : MayLoopSettle(d) /\ Loop(d, read)

NextSettle ==
  \/ MayResetRecover /\ Reset
  \/ LoopSettle
  \/ \E a \in SettleTriggers, supply \in Supplies, powerOk \in BOOLEAN :
       MayTriggerSettle /\ TriggerPort(a[1], a[2], a[3], a[4], a[5], supply, powerOk)

SpecSettle == InitSettle /\ [][NextSettle]_vars

(* The pulses.  As above, with a main loop that keeps calling loop() and a
   horizon a few ticks after the window, by which every pulse has ended. *)
PulseHorizon == 56
PulseHorizonTime == PulseHorizon * Usec(10 * 1000)

LoopPulse ==
  \E d \in Steps, read \in readUntilTripped : elapsed + d <= PulseHorizonTime /\ Loop(d, read)

NextPulse ==
  \/ MayResetRecover /\ Reset
  \/ LoopPulse
  \/ \E a \in SettleTriggers, supply \in Supplies, powerOk \in BOOLEAN :
       MayTriggerSettle /\ TriggerPort(a[1], a[2], a[3], a[4], a[5], supply, powerOk)

SpecPulse == InitSettle /\ [][NextPulse]_vars /\ WF_vars(LoopPulse)

(* The power rail after a pulse.  As SpecSettle, but the current sensor may
   go on reading a load after an over-current shutdown, for as long as the
   rail is on. *)

RailHorizon == 72
RailHorizonTime == RailHorizon * Usec(10 * 1000)
RailWindow == 48
RailWindowTime == RailWindow * Usec(10 * 1000)
MaxRailTriggers == 1
RailTriggers == {<<0, 5, 20, FALSE, FALSE>>, <<1, 20, 10, TRUE, TRUE>>, <<1, 0, 0, TRUE, TRUE>>}

MayTriggerRail == probe.ready => (triggers < MaxRailTriggers /\ elapsed <= RailWindowTime)

LoopRail == \E d \in Steps, read \in readCurrent : elapsed + d <= RailHorizonTime /\ Loop(d, read)

NextRail ==
  \/ MayResetRecover /\ Reset
  \/ LoopRail
  \/ \E a \in RailTriggers, supply \in Supplies, powerOk \in BOOLEAN :
       MayTriggerRail /\ TriggerPort(a[1], a[2], a[3], a[4], a[5], supply, powerOk)

SpecRail == InitSettle /\ [][NextRail]_vars

(* The slow mode of the probe.  loop() ticks every 10 ms for a little more
   than a minute; the controller is reset at start-up; when the LED timeout
   has run out, and the microsecond counter is about to wrap to 0, the
   application sends one trigger or a coil is unplugged. *)

SleepHorizon == 6240
SleepHorizonTime == SleepHorizon * Usec(10 * 1000)
SleepFrom == 6095
SleepFromTime == SleepFrom * Usec(10 * 1000)
SleepWindow == 8
SleepWindowTime == SleepWindow * Usec(10 * 1000)
MaxSleepTriggers == 1
SleepTriggers == {<<0, 5, 20, FALSE, FALSE>>, <<1, 0, 0, TRUE, TRUE>>}
SleepBootTimes == {Wrap - Usec(61000 * 1000)}

InitSleep ==
  /\ InitAt(SleepBootTimes, {<<800, 800>>}, {0}, {buttonConfig}, {1}, {WatchRef})
  /\ probe = ZeroProbe

InSleepWindow == elapsed >= SleepFromTime /\ elapsed <= SleepFromTime + SleepWindowTime

\* One coil is unplugged: the probe reads the open circuit from now on.
Unplug(p) ==
  /\ load[p] # VIn
  /\ load' = [load EXCEPT ![p] = VIn]
  /\ UNCHANGED <<now, elapsed, loopUsec, powerUsec, timeoutUsec, probe, current, ports, pwm,
                 power, resets, triggers, tripped, passes, call, ref, btnVars, devVars>>

LoopSleep == \E d \in Steps : resets > 0 /\ elapsed + d <= SleepHorizonTime /\ Loop(d, 0)

NextSleep ==
  \/ MayResetRecover /\ Reset
  \/ LoopSleep
  \/ \E a \in SleepTriggers, supply \in Supplies :
       /\ InSleepWindow
       /\ triggers < MaxSleepTriggers
       /\ \A p \in Ports : load[p] # VIn
       /\ TriggerPort(a[1], a[2], a[3], a[4], a[5], supply, TRUE)
  \/ \E p \in Ports :
       /\ InSleepWindow
       /\ triggers = 0
       /\ \A q \in Ports : load[q] # VIn
       /\ Unplug(p)

SpecSleep == InitSleep /\ [][NextSleep]_vars

(* V2Device: requests and reboots. *)
InitDevice == InitFrom({<<800, 800>>}, {0}, {buttonConfig}, BootIds)

NextDevice ==
  \/ \E req \in Requests : HandleSystemExclusive(req)
  \/ \E id \in BootIds : Begin(id)
  \/ \E magic \in NoinitWords, enableAccess \in BOOLEAN : ColdStart(magic, enableAccess)

SpecDevice == InitDevice /\ [][NextDevice]_vars


----------------------------------------------------------------------------
(* Properties of the solenoid controller *)

AnyDriving == \E p \in Ports : ports[p].state # "Idle"
AllReleased == \A p \in Ports : ports[p].state = "Idle" /\ ports[p].duty = 0 /\ pwm[p] = 0

\* C1: at the end of a loop() tick that ran (was not rate-limited) and left
\* the filtered current above config.current.max, every port is Idle with
\* duty 0 and PWM duty 0, the probe is not ready and its state is Init.
C1_OverCurrentShutsDown ==
  (call.op = "loop" /\ call.result # "skipped" /\ current > config.current.max)
    => (AllReleased /\ ~probe.ready /\ probe.state = "Init")

\* The tick after the first accepted pulse (the port is still driven when the
\* tick starts) measures an over-current.
C1_Witness ==
  /\ call = Called("loop", "overCurrent")
  /\ current > config.current.max
  /\ triggers = 1
  /\ powerUsec > 0
  /\ getUsecSince(now, powerUsec) = Usec(10 * 1000)

\* C2: while any port is not Idle the probe is at Init; a loop() tick that
\* starts with a driven port does not advance the probe (it leaves it alone
\* or, on over-current, clears it); a triggerPort() call that gets past its
\* checks while the probe is in Settle, Measure or Sleep puts the probe to
\* Init and leaves no port's PWM at anything but the port's own drive duty.
C2_ProbeIdleWhileDriving ==
  /\ [](AnyDriving => probe.state = "Init")
  /\ [][(call'.op = "loop" /\ AnyDriving) => (probe' = probe \/ probe' = ZeroProbe)]_vars
  /\ [][(/\ call'.op = "triggerPort"
         /\ call'.result \in {"accepted", "noPower"}
         /\ probe.state # "Init")
          => (/\ probe'.state = "Init"
              /\ \A p \in Ports : pwm'[p] = ports'[p].duty)]_vars

\* The first pulse is accepted right after a tick that measured a port: the
\* probe was in Measure, and is at Init with a driven port now.
C2_Witness ==
  /\ call = Called("triggerPort", "accepted")
  /\ triggers = 1
  /\ probe.measureUsec = now
  /\ probe.state = "Init"
  /\ AnyDriving

\* C3: a triggerPort() call made while the probe is not ready changes no
\* port's state, duty, pulse or PWM output (nor the probe, the timestamps or
\* the power rail), whatever its arguments.
C3_NotReadyIgnoresTrigger ==
  [][(call'.op = "triggerPort" /\ ~probe.ready)
       => UNCHANGED <<ports, pwm, probe, powerUsec, timeoutUsec, power>>]_vars

\* triggerPort() returned at the readiness test while the probe was
\* energizing a port and another port had already been found connected.
C3_Witness ==
  /\ call = Called("triggerPort", "notReady")
  /\ pwm[probe.port] = DutyOne
  /\ \E p \in Ports : ports[p].measure.state = "Connected"

\* C4: with the probe ready, triggerPort() with watts > 0 and seconds > 0 on
\* a port that is not Connected, or while the filtered current is above
\* config.current.max, changes nothing: ports, PWM, probe, timestamps, rail.
C4_RejectedTriggerIsSilent ==
  [][\A a \in Triggers, supply \in Supplies, powerOk \in BOOLEAN :
       (/\ probe.ready
        /\ a[2] > 0 /\ a[3] > 0
        /\ (ports[a[1]].measure.state # "Connected" \/ current > config.current.max)
        /\ TriggerPort(a[1], a[2], a[3], a[4], a[5], supply, powerOk))
         => UNCHANGED <<ports, pwm, probe, loopUsec, powerUsec, timeoutUsec, power, current>>]_vars

\* A pulse was requested on a port without a connected coil while ready.
C4_Witness ==
  /\ call = Called("triggerPort", "notConnected")
  /\ probe.ready
  /\ \E p \in Ports : ports[p].measure.state # "Connected"

\* C5: every port's duty and every PWM duty written stay within [0, 1].
C5_DutyInRange ==
  \A p \in Ports : ports[p].duty \in 0 .. DutyOne /\ pwm[p] \in 0 .. DutyOne

\* C6: a port in Idle has duty 0 and an all-zero pulse descriptor.
C6_IdleIsZero ==
  \A p \in Ports : ports[p].state = "Idle" => (ports[p].duty = 0 /\ ports[p].pulse = ZeroPulse)

\* C10 as stated: the probe is ready exactly from the completion of the
\* tenth full pass over all ports since reset() or the last over-current.
C10_ReadyAfterTenPasses == probe.ready <=> passes >= ReadyCycles

\* C10: the probe is not ready until eleven full passes over all ports have
\* completed since reset() or the last over-current, and is ready from the
\* completion of the eleventh pass on.
C10_ReadyAfterElevenPasses == probe.ready <=> passes >= ReadyCycles + 1

\* The eleventh pass has just completed, nothing was triggered yet.
C10_Witness ==
  /\ call = Called("loop", "probe")
  /\ passes = ReadyCycles + 1
  /\ probe.ready
  /\ probe.port = 0
  /\ triggers = 0

\* C11: on every tick that runs the drive state machine, a port in FadeIn
\* raises its duty by the pulse's delta, never lowers it, and enters Peak
\* with its duty equal to the target duty.
C11_FadeInReachesTarget ==
  [][\A p \in Ports :
       (/\ call'.op = "loop"
        /\ call'.result \notin {"skipped", "overCurrent"}
        /\ ports[p].state = "FadeIn")
         => (/\ ports'[p].duty = ports[p].duty + ports[p].pulse.delta
             /\ ports'[p].duty >= ports[p].duty
             /\ ports'[p].state = "Peak" => ports'[p].duty = ports'[p].pulse.target)]_vars

\* The pulse of port p was accepted without fade-in and without fade-out and
\* the drive state machine runs on it in this step.
PlainPulseTick(p) ==
  /\ call'.op = "loop"
  /\ call'.result = "busy"
  /\ ports[p].state \in {"Peak", "Hold"}
  /\ ~ports[p].pulse.fadeIn
  /\ ~ports[p].pulse.fadeOut

\* The duration of the pulse of port p has elapsed at the tick of this step.
PulseDue(p) ==
  ~(getUsecSince(now', ports[p].pulse.startUsec) < ports[p].pulse.durationUsec)

\* The tick of this step moves port p from Peak to Hold.
PeakToHold(p) ==
  /\ ports[p].state = "Peak"
  /\ getUsecSince(now', ports[p].pulse.peekUsec) > config.hold.peakUsec

ReleasedNext(p) ==
  /\ ports'[p].state = "Idle"
  /\ ports'[p].duty = 0
  /\ pwm'[p] = 0

\* C12 as stated: a pulse without fades is released by the tick exactly when
\* its duration has elapsed, never before and at the first such tick.
C12_ReleasedAtFirstTickAfterDuration ==
  [][\A p \in Ports : PlainPulseTick(p) => (ReleasedNext(p) <=> PulseDue(p))]_vars

\* C12: a pulse without fades is never released by the drive state machine
\* before its duration has elapsed; it is released at the first tick at which
\* the duration has elapsed, unless that tick is the one that moves the port
\* from Peak to Hold, and then the port is in Hold, from where the next tick
\* releases it.
C12_ReleasedAtFirstTickAfterDurationOrHold ==
  [][\A p \in Ports :
       PlainPulseTick(p)
         => /\ ReleasedNext(p) => PulseDue(p)
            /\ (PulseDue(p) /\ ~PeakToHold(p)) => ReleasedNext(p)
            /\ PeakToHold(p) => (ports'[p].state = "Hold" /\ ~ReleasedNext(p))]_vars

\* A tick 10 ms after the last accepted trigger found a port driven and left
\* every port released: the 10 ms pulse ended on time.
C12_Witness ==
  /\ call = Called("loop", "busy")
  /\ power = "On"
  /\ getUsecSince(now, powerUsec) = Usec(10 * 1000)
  /\ \A p \in Ports : ports[p].state = "Idle" /\ ports[p].duty = 0 /\ pwm[p] = 0

\* C13: with the probe ready, triggerPort() with watts <= 0 or seconds <= 0
\* leaves every other port alone; without fadeOut the port is Idle with duty
\* 0 and PWM 0 on return; with fadeOut on an active port whose duty is at
\* least 0.01 the port enters FadeOut with its output still driven.
C13_CancelReleasesOrFadesOut ==
  [][\A a \in Triggers, supply \in Supplies, powerOk \in BOOLEAN :
       (/\ probe.ready
        /\ (a[2] <= 0 \/ a[3] <= 0)
        /\ TriggerPort(a[1], a[2], a[3], a[4], a[5], supply, powerOk))
         => /\ \A q \in Ports \ {a[1]} : ports'[q] = ports[q] /\ pwm'[q] = pwm[q]
            /\ ~a[5] => (/\ ports'[a[1]].state = "Idle"
                         /\ ports'[a[1]].duty = 0
                         /\ pwm'[a[1]] = 0)
            /\ (a[5] /\ ports[a[1]].state # "Idle" /\ ports[a[1]].duty >= DutyMin)
                 => (/\ ports'[a[1]].state = "FadeOut"
                     /\ ports'[a[1]].duty = ports[a[1]].duty
                     /\ pwm'[a[1]] = pwm[a[1]])]_vars

\* C14: an accepted triggerPort() (ready, watts > 0, seconds > 0, coil
\* Connected, current not above the maximum, power switched on) leaves the
\* port in FadeIn iff fadeIn was requested, the target duty is above 0.01 and
\* the port's duty is below the target; otherwise in Peak with the duty and
\* the PWM output equal to the target.  A port in FadeIn has its PWM output
\* raised by the next tick that runs the drive state machine, unless that
\* tick shuts everything down for over-current.
C14_AcceptedStartsFadeInOrPeak ==
  [][/\ \A a \in Triggers, supply \in Supplies :
          (/\ probe.ready
           /\ a[2] > 0 /\ a[3] > 0
           /\ ports[a[1]].measure.state = "Connected"
           /\ current <= config.current.max
           /\ TriggerPort(a[1], a[2], a[3], a[4], a[5], supply, TRUE))
            => LET before == ports[a[1]]
                   after == ports'[a[1]]
                   target == after.pulse.target
               IN  /\ power' = "On"
                   /\ after.state \in {"FadeIn", "Peak"}
                   /\ after.state = "FadeIn"
                        <=> (a[4] /\ target > DutyMin /\ before.duty < target)
                   /\ after.state = "FadeIn" => after.duty = before.duty
                   /\ after.state = "Peak"
                        => (after.duty = target /\ pwm'[a[1]] = target)
     /\ \A p \in Ports :
          (/\ call'.op = "loop"
           /\ call'.result \notin {"skipped", "overCurrent"}
           /\ ports[p].state = "FadeIn")
            => (pwm'[p] > pwm[p] /\ pwm'[p] = ports'[p].duty)]_vars

\* An accepted trigger has just put a port into FadeIn below its target.
C14_Witness ==
  /\ call = Called("triggerPort", "accepted")
  /\ \E p \in Ports :
       /\ ports[p].state = "FadeIn"
       /\ ports[p].pulse.fadeIn
       /\ ports[p].duty < ports[p].pulse.target

\* C15: after an over-current shutdown, with the measured current back under
\* the maximum and loop() still called, the probe becomes ready again without
\* a reset(), and a trigger on a Connected port is then accepted.
C15_RecoversFromOverCurrent ==
  /\ (tripped /\ ~probe.ready) ~> (tripped /\ probe.ready /\ resets <= 1)
  /\ [][\A a \in RecoverTriggers, supply \in Supplies :
          (/\ tripped
           /\ probe.ready
           /\ ports[a[1]].measure.state = "Connected"
           /\ TriggerPort(a[1], a[2], a[3], a[4], a[5], supply, TRUE))
            => (/\ call' = Called("triggerPort", "accepted")
                /\ ports'[a[1]].state \in {"FadeIn", "Peak"})]_vars

\* After an over-current shutdown the probe is ready again and a trigger has
\* been accepted.
C15_Witness ==
  /\ tripped
  /\ probe.ready
  /\ call = Called("triggerPort", "accepted")
  /\ AnyDriving

\* The tick of this step takes a resistance measurement of port probe.port.
Measures ==
  /\ call'.op = "loop"
  /\ call'.result = "probe"
  /\ probe.state = "Measure"
  /\ ~(getUsecSince(now', probe.measureUsec) < MeasureTime)

\* C16: a measurement classifies the probed port from its resistance alone:
\* above resistance.max NotConnected, below resistance.min ShortCircuit, and
\* from min to max, both limits included, Connected.
C16_ClassifiedByResistance ==
  [][Measures =>
       LET m == ports'[probe.port].measure
       IN  /\ m.resistance > config.resistance.max => m.state = "NotConnected"
           /\ m.resistance < config.resistance.min => m.state = "ShortCircuit"
           /\ (m.resistance >= config.resistance.min /\ m.resistance <= config.resistance.max)
                => m.state = "Connected"]_vars

\* A measurement has left one port at exactly resistance.min and the other at
\* exactly resistance.max, both Connected.
C16_Witness ==
  /\ call = Called("loop", "probe")
  /\ \E p, q \in Ports :
       /\ ports[p].measure = [state |-> "Connected", resistance |-> config.resistance.min,
                              voltage |-> load[p]]
       /\ ports[q].measure = [state |-> "Connected", resistance |-> config.resistance.max,
                              voltage |-> load[q]]

\* C17: getResistance(port) returns -1 for a NotConnected port, 0 for a
\* ShortCircuit port and the stored resistance for a Connected port;
\* getCurrent() returns the filtered current; neither changes any state.
C17_GettersReportAndKeepState ==
  [][/\ \A p \in Ports :
          GetResistance(p)
            => /\ ports[p].measure.state = "NotConnected" => call'.value = -1
               /\ ports[p].measure.state = "ShortCircuit" => call'.value = 0
               /\ ports[p].measure.state = "Connected"
                    => call'.value = ports[p].measure.resistance
     /\ GetCurrent => call'.value = current
     /\ call'.op \in {"getResistance", "getCurrent"}
          => UNCHANGED <<now, loopUsec, powerUsec, timeoutUsec, probe, current, ports,
                         pwm, power>>]_vars

\* getResistance() has returned 0 for a port measured as a short circuit
\* whose stored resistance is not 0.
C17_Witness ==
  /\ call.op = "getResistance"
  /\ call.value = 0
  /\ ports[call.arg].measure.state = "ShortCircuit"
  /\ ports[call.arg].measure.resistance # 0
  /\ current > 0

----------------------------------------------------------------------------
(* Properties of the buttons *)

HookNames(b) == [i \in 1 .. Len(hooks[b]) |-> hooks[b][i].hook]
HookCount(b, name) == Cardinality({i \in 1 .. Len(hooks[b]) : hooks[b][i].hook = name})

\* C7: a press shorter than the 5 ms debounce time (the pin was deasserted
\* for 5 ms or longer before it, so it is no bounce of an earlier press)
\* that a poll has read, and after which the pin stays deasserted, calls no
\* hook and leaves the button on the path WaitDown -> Reset -> Idle.
C7_ShortPressIgnored ==
  \A b \in Buttons :
    (~pins[b] /\ press[b].short /\ press[b].isolated /\ press[b].seenIn # "none")
      => (buttons[b].state \in {"WaitDown", "Reset", "Idle"} /\ press[b].hooks = 0)

\* The same for the presses that a poll first reads while the button is Idle.
ShortPressFromIdleIgnored ==
  \A b \in Buttons :
    (~pins[b] /\ press[b].short /\ press[b].seenIn = "Idle")
      => (buttons[b].state \in {"WaitDown", "Reset", "Idle"} /\ press[b].hooks = 0)

\* C8: for a button with holdUsec > 0, a poll that finds the button Down, the
\* pin asserted and at least holdUsec elapsed since the press was registered
\* calls handleHold and enters Hold; a sequence has at most one handleHold
\* and then no handleClick; the release of a held button calls handleRelease
\* and then handleUp, which end the sequence.
C8_HoldOnceThenRelease ==
  /\ [](\A b \in Buttons :
          buttonConfig[b].holdUsec > 0 =>
            /\ HookCount(b, "handleHold") <= 1
            /\ buttons[b].state = "Hold" =>
                 (HookCount(b, "handleHold") = 1 /\ hooks[b][Len(hooks[b])].hook = "handleHold")
            /\ HookCount(b, "handleHold") = 1 => HookCount(b, "handleClick") = 0
            /\ (HookCount(b, "handleHold") = 1 /\ buttons[b].state \in {"Reset", "Idle"}) =>
                 HookNames(b) = <<"handleDown", "handleHold", "handleRelease", "handleUp">>)
  /\ [][\A b \in Buttons :
          (/\ LoopButton(b)
           /\ buttonConfig[b].holdUsec > 0
           /\ buttons[b].state = "Down"
           /\ pins[b]
           /\ getUsecSince(now, buttons[b].usec) >= buttonConfig[b].holdUsec)
            => (/\ buttons'[b].state = "Hold"
                /\ hooks'[b] = Append(hooks[b], Hook("handleHold", buttons[b].clicks, buttons[b])))]_vars

\* A long press was released and its sequence has ended.
C8_Witness ==
  \E b \in Buttons :
    /\ buttonConfig[b].holdUsec > 0
    /\ buttons[b].state = "Idle"
    /\ ~pins[b]
    /\ HookNames(b) = <<"handleDown", "handleHold", "handleRelease", "handleUp">>

\* The sequence of button 1 has ended after N presses.
ClicksDone == buttons[1].state = "Idle" /\ ~pins[1] /\ press[1].count >= 1 /\ scan = 0

C18_WakeUpNotLost ==
  \A b \in wake.unseen : dispatch.busy \/ (scan # 0 /\ scan <= b)

\* An interrupt arrived for button 1 in the middle of a scan, after button 1
\* had been polled and had returned not busy.
C18_Witness ==
  /\ scan = 2
  /\ 1 \in wake.unseen
  /\ ~buttons[1].busy
  /\ dispatch.busy

\* C19: a scan starts only with the busy flag set and at least 1000 us after
\* the previous scan started; it polls the buttons one after the other, each
\* exactly once; when it ends, the flag is set iff some button returned busy
\* or an interrupt arrived during the scan.
C19_ScanRateAndBusy ==
  [][/\ (scan = 0 /\ scan' # 0)
          => (/\ dispatch.busy
              /\ ~(getUsecSince(now, dispatch.usec) < ScanPeriod)
              /\ scan' = 1
              /\ dispatch'.usec = now)
     /\ scan' # scan => scan' = (scan + 1) % (nButtons + 1)
     /\ \A b \in Buttons :
          buttons'[b] # buttons[b] => (scan = b /\ scan' # b)
     /\ (scan = nButtons /\ scan' = 0)
          => (dispatch'.busy <=> (wake'.flagged \/ \E b \in Buttons : buttons'[b].busy))]_vars

\* A scan has just ended with the flag set by a button that returned busy,
\* no interrupt having arrived during the scan.
C19_Witness ==
  /\ scan = 0
  /\ dispatch.usec = now
  /\ dispatch.busy
  /\ ~wake.flagged
  /\ \E b \in Buttons : buttons[b].busy

\* C20 as stated: once an interrupt has set the flag, the next call of
\* V2Buttons::loop() scans, whatever the rate-limit timer says.
C20_InterruptForcesNextScan ==
  (scan = 0 /\ wake.flagged) => ENABLED (LoopEnter /\ scan' = 1)

\* C20: a pin change sets the busy flag; the flag stays set until a scan
\* starts; with the flag set, a call of V2Buttons::loop() made at least
\* 1000 us after the previous scan scans, and an earlier call does not.
C20_FlagDecidesTimerDelays ==
  /\ [](scan = 0 /\ dispatch.busy
          => (ENABLED (LoopEnter /\ scan' = 1)
                <=> ~(getUsecSince(now, dispatch.usec) < ScanPeriod)))
  /\ [](scan = 0 /\ ~dispatch.busy => ~ENABLED (LoopEnter /\ scan' = 1))
  /\ [][/\ pins' # pins => dispatch'.busy
        /\ (dispatch.busy /\ ~dispatch'.busy) => (scan = 0 /\ scan' = 1)]_vars

\* An interrupt has set the flag less than 1000 us after the last scan.
C20_Witness ==
  /\ scan = 0
  /\ wake.flagged
  /\ dispatch.busy
  /\ \A b \in Buttons : ~buttons[b].busy
  /\ getUsecSince(now, dispatch.usec) < ScanPeriod

\* C21: a button's _event is assigned at the Idle -> WaitDown step, from the
\* global counter, which that step and no other advances by one modulo 2^32;
\* it changes next in the step executed in Reset, which clears it.  Every
\* hook of the running sequence has seen that value, and two sequences
\* running at the same time have different values.
C21_OneEventIdPerSequence ==
  /\ [](\A b \in Buttons :
          buttons[b].state # "Idle"
            => \A i \in 1 .. Len(hooks[b]) : hooks[b][i].event = buttons[b].event)
  /\ [](\A b, c \in Buttons :
          (b # c /\ buttons[b].state # "Idle" /\ buttons[c].state # "Idle")
            => buttons[b].event # buttons[c].event)
  /\ [][/\ \A b \in Buttons :
             /\ (buttons[b].state = "Idle" /\ buttons'[b].state # "Idle")
                  => (/\ buttons'[b].state = "WaitDown"
                      /\ buttons'[b].event = dispatch.event
                      /\ dispatch'.event = IF dispatch.event = EventMax
                                           THEN -EventMax - 1
                                           ELSE dispatch.event + 1)
             /\ buttons'[b].event # buttons[b].event
                  => \/ buttons[b].state = "Idle" /\ buttons'[b].state = "WaitDown"
                     \/ buttons[b].state = "Reset" /\ buttons'[b].event = 0
        /\ dispatch'.event # dispatch.event
             => \E b \in Buttons : buttons[b].state = "Idle" /\ buttons'[b].state = "WaitDown"]_vars

\* Both buttons are down and have reported it, one in the sequence numbered
\* 2^32 - 1 and the other in the sequence numbered 0 that followed it.
C21_Witness ==
  \E b, c \in Buttons :
    /\ buttons[b].state = "Down" /\ buttons[b].event = -1
    /\ buttons[c].state = "Down" /\ buttons[c].event = 0
    /\ Len(hooks[b]) = 1 /\ hooks[b][1] = [hook |-> "handleDown", count |-> 0, event |-> -1]
    /\ Len(hooks[c]) = 1 /\ hooks[c][1] = [hook |-> "handleDown", count |-> 0, event |-> 0]

\* C22: a button whose Config is absent or has holdUsec = 0 never calls
\* handleHold or handleRelease, whatever its clickUsec; a button whose Config
\* is absent or has clickUsec = 0 calls every handleClick, and every
\* handleHold, with count 0, whatever its holdUsec.
C22_ZeroConfigDisables ==
  \A b \in Buttons :
    /\ configs[b].holdUsec = 0
         => (HookCount(b, "handleHold") = 0 /\ HookCount(b, "handleRelease") = 0)
    /\ configs[b].clickUsec = 0
         => (buttons[b].clicks = 0 /\ \A i \in 1 .. Len(hooks[b]) : hooks[b][i].count = 0)

\* A button without hold detection has been held longer than the hold time
\* of the other Configs and waits, not busy, for the release; it has called
\* handleDown only.
C22_Witness ==
  \E b \in Buttons :
    /\ configs[b].holdUsec = 0
    /\ pins[b]
    /\ buttons[b].state = "Down" /\ ~buttons[b].busy
    /\ getUsecSince(now, buttons[b].usec) > buttonConfig[1].holdUsec
    /\ HookNames(b) = <<"handleDown">>

\* The state of the controller that loop() may change.
controller == <<loopUsec, powerUsec, timeoutUsec, probe, current, ports, pwm, power>>

\* C23 as stated: a loop() call made less than 1000 us after the previous
\* substantive tick changes nothing.
C23_EarlyLoopIsNoOp ==
  [][(/\ call'.op = "loop"
      /\ ref.tickAt >= 0
      /\ elapsed' - ref.tickAt < LoopPeriod)
       => UNCHANGED controller]_vars

\* C23: a loop() call made less than 1000 us after the previous substantive
\* tick, with no reset() in between, changes nothing.
C23_EarlyLoopIsNoOpUnlessReset ==
  [][(/\ call'.op = "loop"
      /\ ref.tickAt >= 0
      /\ ~ref.reset
      /\ elapsed' - ref.tickAt < LoopPeriod)
       => (call'.result = "skipped" /\ UNCHANGED controller)]_vars

\* loop() has returned at the rate limit while a port was fading in, less
\* than 1000 us after the tick before.
C23_Witness ==
  /\ call = Called("loop", "skipped")
  /\ ref.tickAt >= 0
  /\ elapsed - ref.tickAt < LoopPeriod
  /\ \E p \in Ports : ports[p].state = "FadeIn" /\ ports[p].duty > 0

\* C24: timing decisions do not depend on the counter value at which a
\* timestamp was taken.  For the power-off delay: a tick with the rail on, no
\* port busy and no over-current leaves the rail on and the probe alone when
\* less than 200 ms have passed since the last accepted trigger, and switches
\* the rail off when 200 ms or more have passed.
C24_TimingIndependentOfCounter ==
  [][(/\ call'.op = "loop"
      /\ call'.result \in {"powerDelay", "probe"}
      /\ power = "On"
      /\ ref.triggerAt >= 0)
       => IF elapsed' - ref.triggerAt < PowerOffDelay
          THEN power' = "On" /\ UNCHANGED probe
          ELSE power' = "Off"]_vars

\* The same decision for timestamps other than counter value 0.
PowerOffDelayUnlessZero ==
  [][(/\ call'.op = "loop"
      /\ call'.result \in {"powerDelay", "probe"}
      /\ power = "On"
      /\ ref.triggerAt >= 0
      /\ powerUsec > 0)
       => IF elapsed' - ref.triggerAt < PowerOffDelay
          THEN power' = "On" /\ UNCHANGED probe
          ELSE power' = "Off"]_vars

\* A port as releasePort() leaves it.
Released(p) ==
  /\ ports[p].state = "Idle"
  /\ ports[p].duty = 0
  /\ ports[p].pulse = ZeroPulse
  /\ pwm[p] = 0

\* A cancelling triggerPort() call: it fades the port out or releases it.
CancelStep == call'.op = "triggerPort" /\ call'.result = "cancel"

C26_ForeignTokenIgnored ==
  [][handled'.request.method # "none" =>
       LET req == handled'.request IN
       IF req.hasToken /\ req.token # device.bootId
       THEN device' = device /\ handled'.sent = "none"
       ELSE req.framed =>
         /\ req.method = "getAll" => handled'.sent = "reply" /\ device' = device
         /\ req.method = "reboot" => ~device'.running
         /\ req.method = "eraseConfiguration" => ~device'.running /\ device'.stored = Blank
         /\ req.method = "rebootWithPorts" => ~device'.running /\ device'.bootAccess
         /\ req.method = "switchChannel" =>
              /\ handled'.sent = "reply"
              /\ req.value # NoValue => device'.channel = req.value
         /\ req.method = "writeConfiguration" =>
              /\ handled'.sent = "reply"
              /\ req.value \in 0..16 => device'.stored = req.value
         /\ req.method = "writeFirmware" =>
              /\ handled'.sent \in {"invalidOffset", "success", "hashMismatch"}
              /\ req.aligned => device'.firmware # "none"]_vars

\* An eraseConfiguration request with the token of another boot cycle was
\* handled: the device runs on and the stored configuration is still there.
C26_Witness ==
  /\ handled.request.framed
  /\ handled.request.method = "eraseConfiguration"
  /\ handled.request.hasToken
  /\ handled.request.token # device.bootId
  /\ device.running
  /\ device.stored = 4

\* C27: at a tick where a port is in Peak and more than hold.peakUsec have
\* passed since the peak started, the port moves to Hold and its duty and PWM
\* become duty * hold.fraction, whether the duration of the pulse has elapsed
\* or not; a tick never moves a port from Hold back to Peak and never changes
\* the duty of a port that stays in Hold, so the reduction is applied once.
C27_PeakToHoldIgnoresDuration ==
  [][(call'.op = "loop" /\ call'.result = "busy") =>
       \A p \in Ports :
         /\ (/\ ports[p].state = "Peak"
             /\ getUsecSince(now', ports[p].pulse.peekUsec) > config.hold.peakUsec)
              => /\ ports'[p].state = "Hold"
                 /\ ports'[p].duty =
                      (ports[p].duty * config.hold.fractionNum) \div config.hold.fractionDen
                 /\ pwm'[p] = ports'[p].duty
                 /\ ports'[p].pulse = ports[p].pulse
         /\ ports[p].state = "Hold"
              => /\ ports'[p].state # "Peak"
                 /\ ports'[p].state = "Hold" => ports'[p].duty = ports[p].duty]_vars

\* A port is in Hold right after a tick at which the duration of its pulse had
\* elapsed: a port in Hold before that tick would have been released or faded
\* out by it, so the tick moved the port from Peak to Hold.
C27_Witness ==
  /\ call = Called("loop", "busy")
  /\ loopUsec = now
  /\ \E p \in Ports :
       /\ ports[p].state = "Hold"
       /\ ports[p].duty > 0
       /\ pwm[p] = ports[p].duty
       /\ ~(getUsecSince(now, ports[p].pulse.startUsec) < ports[p].pulse.durationUsec)

\* C28: no press is dropped: outside a scan, the dispatcher is never idle
\* (flag clear: no later call scans) while a pin is asserted and its button is
\* in Idle.
C28_NoPressDropped ==
  (scan = 0 /\ ~dispatch.busy)
    => \A b \in Buttons : ~(pins[b] /\ buttons[b].state = "Idle")

\* C29: the probe works only while the main power rail is off: whenever the
\* rail is on, the probe is in Init and the PWM output of every port equals
\* its drive duty, so that no port is held at the probe's duty.
C29_ProbeOnlyWithRailOff ==
  power = "On" =>
    /\ probe.state = "Init"
    /\ \A p \in Ports : pwm[p] = ports[p].duty

\* The same for rails switched on at a counter value other than 0.
ProbeOnlyWithRailOffUnlessZero ==
  (power = "On" /\ powerUsec > 0) =>
    /\ probe.state = "Init"
    /\ \A p \in Ports : pwm[p] = ports[p].duty

\* The probe holds a port at its duty while the rail is on.
ProbeEnergizesWithRailOn ==
  /\ power = "On"
  /\ probe.state = "Measure"
  /\ pwm[probe.port] = DutyOne
  /\ ports[probe.port].state = "Idle"

\* C30: a measurement samples a port that the probe has energized for 10 ms
\* or more without a break: no step switches the PWM of the probed port off
\* between the moment the probe energized it (probe.measureUsec) and the
\* measurement, and at the tick that measures, 10 ms or more after that
\* moment, the PWM of the probed port is at the probe's duty 1.
C30_SampledAfterTenMsEnergized ==
  [][/\ (/\ probe.state = "Measure"
         /\ probe'.state = "Measure"
         /\ probe'.port = probe.port
         /\ probe'.measureUsec = probe.measureUsec)
          => pwm'[probe.port] = DutyOne
     /\ Measures => pwm[probe.port] = DutyOne]_vars

\* Only a cancelling triggerPort() call switches the probed port off between
\* the moment the probe energized it and the measurement.
EnergizedUnlessCancelled ==
  [][~CancelStep =>
       ((/\ probe.state = "Measure"
         /\ probe'.state = "Measure"
         /\ probe'.port = probe.port
         /\ probe'.measureUsec = probe.measureUsec)
          => pwm'[probe.port] = pwm[probe.port])]_vars

\* The tick of this step lets the probe energize port probe.port.
Energizes ==
  /\ call'.op = "loop"
  /\ call'.result = "probe"
  /\ probe'.state = "Measure"
  /\ probe.state # "Measure" \/ probe'.measureUsec # probe.measureUsec

\* C31: the probe energizes a port and takes a measurement no sooner than
\* 200 ms after the last moment at which some port was in a non-Idle
\* DriverState, and a port that is not Idle finds the probe in Init.
C31_MeasuredAfterSettle ==
  /\ [](\A p \in Ports : ports[p].state # "Idle" => probe.state = "Init")
  /\ [][(ref.driveAt >= 0 /\ (Energizes \/ Measures))
          => elapsed' - ref.driveAt >= Usec(200 * 1000)]_vars

\* A measurement was taken after a pulse was driven, with the rail switched
\* off after the pulse.
C31_Witness ==
  /\ ref.driveAt >= 0
  /\ ~tripped
  /\ triggers > 0
  /\ power = "Off"
  /\ call = Called("loop", "probe")
  /\ probe.state = "Measure"
  /\ probe.port = 1
  /\ elapsed - ref.driveAt >= Usec(200 * 1000)

\* C32: loop() switches the main power rail off only at a tick at whose start
\* every port is Idle and which lies 200 ms or more after the last accepted
\* trigger; and whenever some port is not Idle the rail is on.
C32_PowerOffOnlyWhenIdle ==
  /\ [](\A p \in Ports : ports[p].state # "Idle" => power = "On")
  /\ [][(call'.op = "loop" /\ power = "On" /\ power' = "Off")
          => /\ \A p \in Ports : ports[p].state = "Idle"
             /\ ref.triggerAt >= 0
             /\ elapsed' - ref.triggerAt >= Usec(200 * 1000)]_vars

\* The tick that switched the rail off after a pulse: a port has been driven,
\* the rail is off, and the probe has taken its settle timestamp at this tick.
C32_Witness ==
  /\ ref.driveAt >= 0
  /\ ~tripped
  /\ power = "Off"
  /\ call = Called("loop", "probe")
  /\ probe.state = "Settle"
  /\ probe.settleUsec = now
  /\ loopUsec = now

\* C33: with loop() ticking, a port that has left Idle returns to Idle with
\* duty 0 and PWM 0.  On the way a FadeIn tick raises the duty by the positive
\* delta of the pulse; a fade-out starts with delta = duty / (fade.outSec *
\* 1000); a FadeOut tick lowers the duty by that delta, which stays as it is,
\* releases the port when the result is <= 0 and writes it to the PWM
\* otherwise; and no PWM output is ever negative.
C33_PulseEnds ==
  /\ \A p \in Ports :
       (ports[p].state # "Idle")
         ~> (ports[p].state = "Idle" /\ ports[p].duty = 0 /\ pwm[p] = 0)
  /\ [](\A p \in Ports : pwm[p] >= 0)
  /\ [][(call'.op = "loop" /\ call'.result = "busy") =>
          \A p \in Ports :
            /\ ports[p].state = "FadeIn"
                 => /\ ports[p].pulse.delta > 0
                    /\ ports'[p].duty = ports[p].duty + ports[p].pulse.delta
                    /\ ports'[p].state \in {"FadeIn", "Peak"}
            /\ (ports[p].state # "FadeOut" /\ ports'[p].state = "FadeOut")
                 => ports'[p].pulse.delta = ports[p].duty \div config.fade.outMsec
            /\ ports[p].state = "FadeOut"
                 => /\ ports[p].pulse.delta > 0
                    /\ IF ports[p].duty - ports[p].pulse.delta <= 0
                       THEN /\ ports'[p].state = "Idle"
                            /\ ports'[p].duty = 0
                            /\ pwm'[p] = 0
                       ELSE /\ ports'[p].state = "FadeOut"
                            /\ ports'[p].pulse.delta = ports[p].pulse.delta
                            /\ ports'[p].duty = ports[p].duty - ports[p].pulse.delta
                            /\ pwm'[p] = ports'[p].duty]_vars

\* A port is fading out: a FadeOut tick has lowered its duty and written it
\* to the PWM, and the next tick will release the port.
C33_Witness ==
  /\ call = Called("loop", "busy")
  /\ ports[1].state = "FadeOut"
  /\ ports[1].duty > 0
  /\ pwm[1] = ports[1].duty
  /\ ports[1].duty - ports[1].pulse.delta <= 0

\* The lists of hooks that a sequence of a button can have called.
HooksDown == <<"handleDown">>
HooksHeld == <<"handleDown", "handleHold">>
HooksClicked == <<"handleDown", "handleClick", "handleUp">>
HooksReleased == <<"handleDown", "handleHold", "handleRelease", "handleUp">>

\* C34: the hooks called in one event sequence of a button are well-formed:
\* handleDown is called at most once and first; the hooks called so far are
\* a prefix of handleDown, handleClick, handleUp or of handleDown,
\* handleHold, handleRelease, handleUp, so handleClick and handleHold never
\* both occur and handleRelease follows a handleHold; a sequence that has
\* ended called no hook at all or one of the two full lists, with handleUp
\* exactly once and last; every step of a button appends nothing, one hook
\* or the closing pair.
C34_HooksWellFormed ==
  /\ [](\A b \in Buttons :
          /\ HookNames(b) \in {<<>>, HooksDown, HooksHeld, HooksClicked, HooksReleased}
          /\ buttons[b].state = "WaitDown" => HookNames(b) = <<>>
          /\ buttons[b].state \in {"Down", "Up"} => HookNames(b) = HooksDown
          /\ buttons[b].state = "Hold" => HookNames(b) = HooksHeld
          /\ buttons[b].state \in {"Reset", "Idle"} =>
               HookNames(b) \in {<<>>, HooksClicked, HooksReleased})
  /\ [][\A b \in Buttons :
          (Len(hooks'[b]) > Len(hooks[b]))
            => /\ LoopButton(b)
               /\ \/ /\ buttons[b].state = "WaitDown"
                     /\ HookNames(b)' = HooksDown
                  \/ /\ buttons[b].state = "Down"
                     /\ HookNames(b)' = HooksHeld
                  \/ /\ buttons[b].state = "Up"
                     /\ HookNames(b)' = HooksClicked
                  \/ /\ buttons[b].state = "Hold"
                     /\ HookNames(b)' = HooksReleased]_vars

\* A sequence of two presses has ended with one handleClick of count 1.
C34_Witness ==
  /\ buttons[1].state = "Idle"
  /\ ~pins[1]
  /\ press[1].count = 2
  /\ HookNames(1) = HooksClicked
  /\ hooks[1][2].count = 1

\* C35: while the probe is not ready every port is Idle with duty 0; a port
\* leaves Idle only in a call that starts with the probe ready; the steps
\* that take the readiness away (reset(), the over-current shutdown of
\* loop()) leave every port Idle with duty 0 and PWM 0.
C35_NotReadyMeansAllIdle ==
  /\ [](~probe.ready => \A p \in Ports : ports[p].state = "Idle" /\ ports[p].duty = 0)
  /\ [][/\ (\E p \in Ports : ports[p].state = "Idle" /\ ports'[p].state # "Idle")
             => (probe.ready /\ call'.op = "triggerPort")
        /\ (probe.ready /\ ~probe'.ready)
             => (/\ call'.op = "reset" \/ call' = Called("loop", "overCurrent")
                 /\ \A p \in Ports :
                      ports'[p].state = "Idle" /\ ports'[p].duty = 0 /\ pwm'[p] = 0)]_vars

\* The over-current shutdown has just taken the readiness away from a
\* controller that was driving a port.
C35_Witness ==
  /\ call = Called("loop", "overCurrent")
  /\ ~probe.ready
  /\ tripped
  /\ triggers > 0
  /\ passes = 0
  /\ \A p \in Ports : ports[p].state = "Idle" /\ ports[p].duty = 0

\* C36: a port that is not Idle is classified Connected; a port leaves Idle
\* only when it is classified Connected, and the call leaves the
\* classifications alone; no call that starts with a driven port and leaves a
\* port driven changes any port's classification, and the only call that
\* changes one while a port is driven is reset(), which releases every port.
C36_DrivenCoilIsConnected ==
  /\ [](\A p \in Ports : ports[p].state # "Idle" => ports[p].measure.state = "Connected")
  /\ [][/\ \A p \in Ports :
             (ports[p].state = "Idle" /\ ports'[p].state # "Idle")
               => (/\ ports[p].measure.state = "Connected"
                   /\ \A q \in Ports : ports'[q].measure = ports[q].measure)
        /\ (/\ \E p \in Ports : ports[p].state # "Idle"
            /\ \E q \in Ports : ports'[q].measure.state # ports[q].measure.state)
             => (/\ call'.op = "reset"
                 /\ \A p \in Ports : ports'[p].state = "Idle" /\ pwm'[p] = 0)]_vars

\* A pulse runs on one port while the other port is classified ShortCircuit
\* and a pulse for the other port has just been refused.
C36_Witness ==
  /\ call = Called("triggerPort", "notConnected")
  /\ \E p, q \in Ports :
       /\ ports[p].state # "Idle"
       /\ ports[p].measure.state = "Connected"
       /\ ports[q].state = "Idle"
       /\ ports[q].measure.state = "ShortCircuit"

\* C37: a loop() tick that starts with every port Idle, more than 200 ms
\* after the last accepted trigger, leaves the main power rail switched off,
\* also when it finds the filtered current above config.current.max.
C37_RailOffAfterDelay ==
  [][(/\ call'.op = "loop"
      /\ call'.result # "skipped"
      /\ \A p \in Ports : ports[p].state = "Idle"
      /\ ref.triggerAt >= 0
      /\ elapsed' - ref.triggerAt > PowerOffDelay)
       => power' = "Off"]_vars

\* The same for the ticks that find no over-current, after a trigger taken
\* at a counter value other than 0.
RailOffUnlessOverCurrentOrZero ==
  [][(/\ call'.op = "loop"
      /\ call'.result \notin {"skipped", "overCurrent"}
      /\ powerUsec > 0
      /\ \A p \in Ports : ports[p].state = "Idle"
      /\ ref.triggerAt >= 0
      /\ elapsed' - ref.triggerAt > PowerOffDelay)
       => power' = "Off"]_vars

\* The rail is on, every port is released, and the tick more than 200 ms
\* after the trigger has returned at the over-current test.
RailOnWhileOverCurrent ==
  /\ call = Called("loop", "overCurrent")
  /\ power = "On"
  /\ powerUsec > 0
  /\ ref.triggerAt >= 0
  /\ elapsed - ref.triggerAt > PowerOffDelay
  /\ \A p \in Ports : ports[p].state = "Idle" /\ pwm[p] = 0

\* This step changes the coil state of a port.
CoilChanges == \E p \in Ports : ports'[p].measure.state # ports[p].measure.state

\* The probe has energized the next port in this step, for a new measurement.
FollowsDirectly ==
  /\ probe'.state = "Measure"
  /\ probe'.measureUsec = now'
  /\ pwm'[probe'.port] = DutyOne

\* C38: a measurement taken more than 60 s after the last activity (reset(),
\* a trigger that passed its checks, a change of a coil state) that changes
\* no coil state puts the probe to Sleep; the probe leaves Sleep for the next
\* measurement no earlier than 1 s after the last one; a measurement that
\* changes a coil state, or that is taken 60 s or less after the last
\* activity, is followed directly by the next measurement.
C38_SlowModeAfterIdleMinute ==
  [][/\ (Measures /\ ~CoilChanges /\ ref.activeAt >= 0 /\ elapsed' - ref.activeAt > LedTimeout)
          => probe'.state = "Sleep"
     /\ (Energizes /\ probe.state = "Sleep")
          => elapsed' - ref.measuredAt >= SleepTime
     /\ (Measures /\ (CoilChanges \/ (ref.activeAt >= 0 /\ elapsed' - ref.activeAt <= LedTimeout)))
          => FollowsDirectly]_vars

\* The same, where the third part leaves out the activity whose timestamp
\* was taken at counter value 0.
SlowModeUnlessZero ==
  [][/\ (Measures /\ ~CoilChanges /\ ref.activeAt >= 0 /\ elapsed' - ref.activeAt > LedTimeout)
          => probe'.state = "Sleep"
     /\ (Energizes /\ probe.state = "Sleep")
          => elapsed' - ref.measuredAt >= SleepTime
     /\ (/\ Measures
         /\ \/ CoilChanges /\ now' # 0
            \/ ~CoilChanges /\ timeoutUsec # 0 /\ ref.activeAt >= 0
                 /\ elapsed' - ref.activeAt <= LedTimeout)
          => FollowsDirectly]_vars

\* The slow mode has begun: more than 60 s after the last activity the probe
\* sleeps after a measurement.
SlowModeBegun ==
  /\ call = Called("loop", "probe")
  /\ probe.state = "Sleep"
  /\ probe.sleepUsec = now
  /\ ref.measuredAt = elapsed
  /\ ref.activeAt >= 0
  /\ elapsed - ref.activeAt > LedTimeout
  /\ resets = 1

\* The probe sleeps after a measurement taken less than a second after an
\* accepted trigger.
SleepsAfterTrigger ==
  /\ call = Called("loop", "probe")
  /\ probe.state = "Sleep"
  /\ probe.sleepUsec = now
  /\ triggers = 1
  /\ ref.activeAt >= SleepFromTime
  /\ elapsed - ref.activeAt < SleepTime

\* The longest of the debounce time and the hold and click times of the
\* buttons.
Longest(n) ==
  IF n > Debounce
  THEN n
  ELSE Debounce
LongestWindow ==
  LET w == {configs[b].holdUsec : b \in Buttons} \cup {configs[b].clickUsec : b \in Buttons}
  IN  Longest(CHOOSE n \in w : \A m \in w : m <= n)

\* When the pin of button b last changed.
LastChange(b) == IF pins[b] THEN press[b].riseUsec ELSE press[b].fallUsec

\* The ticks of V2Buttons::loop() allowed on top of the longest window.
IdleTicks == 3

\* No pin has changed for the longest window and IdleTicks scan periods, and
\* V2Buttons::loop() has been called at the current time.
PinsAtRest ==
  /\ scan = 0
  /\ Polled
  /\ elapsed >= LongestWindow + IdleTicks * ScanPeriod
  /\ \A b \in Buttons : getUsecSince(now, LastChange(b)) >= LongestWindow + IdleTicks * ScanPeriod

\* C39: once no pin has changed for the longest of the debounce, hold and
\* click times plus three scan periods, no button is busy, the global busy
\* flag is clear and a call of V2Buttons::loop() does not scan, whether the
\* pins are released or held.
C39_IdleWhenPinsRest ==
  PinsAtRest =>
    /\ ~dispatch.busy
    /\ \A b \in Buttons : ~buttons[b].busy
    /\ ~ENABLED (LoopEnter /\ scan' = 1)
    /\ \A b \in Buttons :
         \/ ~pins[b] /\ buttons[b].state = "Idle"
         \/ pins[b] /\ buttons[b].state = "Hold" /\ configs[b].holdUsec > 0
         \/ pins[b] /\ buttons[b].state = "Down" /\ configs[b].holdUsec = 0
         \/ pins[b] /\ buttons[b].state = "Idle"

\* The pins are at rest with button 1 held in Hold.
C39_Witness ==
  /\ PinsAtRest
  /\ pins[1]
  /\ buttons[1].state = "Hold"
  /\ HookNames(1) = <<"handleDown", "handleHold">>
  /\ ~dispatch.busy

\* begin() runs in this step.
Begins == ~device.running /\ device'.running

\* The number of ports begin() takes from the EEPROM, or else the standard.
StoredPorts ==
  IF device.stored # Blank /\ device.stored > 0 THEN device.stored ELSE usbPorts.standard

\* The number of ports of the access mode.
AccessPorts == IF usbPorts.access > 0 THEN usbPorts.access ELSE 16

\* C40: the begin() that follows a rebootWithPorts request runs with
\* usb.ports.current = usb.ports.access (16 when that is 0); every begin()
\* leaves the boot flag cleared; the begin() that follows any other reboot,
\* or a cold start, runs with the port count of the EEPROM, or else with the
\* standard port count.
C40_AccessModeLastsOneBoot ==
  [][Begins =>
       /\ ~device'.bootAccess
       /\ IF handled.request.method = "rebootWithPorts"
          THEN device'.enableAccess /\ device'.current = AccessPorts
          ELSE ~device'.enableAccess /\ device'.current = StoredPorts]_vars

\* The same for the reboots by request and for the cold starts after which
\* BootData() has cleared the flag or found it cleared.
AccessModeLastsOneReboot ==
  [][(Begins /\ (handled.request.method # "none" \/ ~device.bootAccess)) =>
       /\ ~device'.bootAccess
       /\ IF handled.request.method = "rebootWithPorts"
          THEN device'.enableAccess /\ device'.current = AccessPorts
          ELSE ~device'.enableAccess /\ device'.current = StoredPorts]_vars

============================================================================
